---- MODULE Spec2Model ----
(***************************************************************************)
(* Model of condoor: the FSM engine (fsm.py) that drives every dialog, and *)
(* the Connection / Chain / Device layer that connects hop by hop.         *)
(*                                                                         *)
(* SpecFSM   one FSM.run over arbitrary event sequences, for the           *)
(*           transition tables the repository builds.                      *)
(***************************************************************************)
EXTENDS Integers, Sequences, FiniteSets, TLC

None == "None"

\* pexpect sentinels usable as events
TIMEOUT == "pexpect.TIMEOUT"
EOF == "pexpect.EOF"

\* Chain.get_previous_prompts puts this never-matching pattern first
NOMATCH == "(?!x)x"

Max(S) == CHOOSE x \in S : \A y \in S : y <= x

SeqContains(seq, x) == \E i \in 1..Len(seq) : seq[i] = x

\* an index that is 0 whatever is looked up
IndexOfFirst(seq, x) == 0

\* list.index(x): position of the first occurrence, 0-based
IndexOf(seq, x) ==
    (CHOOSE i \in 1..Len(seq) : seq[i] = x /\ \A j \in 1..(i - 1) : seq[j] # x) - 1

-----------------------------------------------------------------------------
(* Transition rows: (event, [list_of_states], next_state, action, timeout) *)

Row(ev, states, next, act, t) ==
    [event |-> ev, states |-> states, next_state |-> next, act |-> act, timeout |-> t]

Call(name) == [kind |-> "call", name |-> name]
Exc(cls) == [kind |-> "exc", name |-> cls]
NoAct == [kind |-> "none", name |-> None]

\* Context.event before the first event (None in the code)
NoEvent == -1

\* what a lookup yields when the key is not in the table
NoEntry == [next_state |-> 0, act |-> [kind |-> "absent", name |-> None], timeout |-> 0]

\* states used by the tables below
FsmStates == 0..9

\* FSM._compile: (event_index, state) -> (next_state, action, timeout);
\* rows for events missing from the event list are dropped, a later row
\* overwrites an earlier one for the same key.
RowsOf(transitions, events, key) ==
    {r \in 1..Len(transitions) :
        /\ SeqContains(events, transitions[r].event)
        /\ IndexOf(events, transitions[r].event) = key[1]
        /\ key[2] \in transitions[r].states}

_compile(transitions, events) ==
    LET keys == {k \in (0..(Len(events) - 1)) \X FsmStates :
                    RowsOf(transitions, events, k) # {}}
    IN [k \in keys |->
            LET r == transitions[Max(RowsOf(transitions, events, k))]
            IN [next_state |-> r.next_state, act |-> r.act, timeout |-> r.timeout]]

-----------------------------------------------------------------------------
(* The actions of actions.py, by what they do to the context, the device   *)
(* and the controller and by how they end.                                 *)

Effect(ret, exc, fin, devdisc, ctrldisc) ==
    [ret |-> ret, exc |-> exc, finished |-> fin, dev_disconnect |-> devdisc,
     ctrl_disconnect |-> ctrldisc]

\* an a_send that marks the device disconnected
a_send_disconnecting == Effect("true", None, FALSE, TRUE, FALSE)

a_send == Effect("true", None, FALSE, FALSE, FALSE)
a_send_line == Effect("true", None, FALSE, FALSE, FALSE)
a_send_username(username) ==
    IF username THEN Effect("true", None, FALSE, FALSE, FALSE)
    ELSE Effect("raise", "ConnectionAuthenticationError", FALSE, FALSE, TRUE)
a_send_password(password) ==
    IF password THEN Effect("true", None, FALSE, FALSE, FALSE)
    ELSE Effect("raise", "ConnectionAuthenticationError", FALSE, FALSE, TRUE)
\* an a_authentication_error that raises without ctx.ctrl.disconnect()
a_authentication_error_keeping_session ==
    Effect("raise", "ConnectionAuthenticationError", FALSE, FALSE, FALSE)

a_authentication_error == Effect("raise", "ConnectionAuthenticationError", FALSE, FALSE, TRUE)
a_unable_to_connect == Effect("false", None, FALSE, FALSE, FALSE)
a_disconnect == Effect("true", None, FALSE, FALSE, TRUE)
\* an a_connection_closed that leaves the device marked connected
a_connection_closed_keeping_mark == Effect("true", None, FALSE, FALSE, FALSE)

a_connection_closed == Effect("true", None, FALSE, TRUE, FALSE)
a_stays_connected == Effect("true", None, FALSE, TRUE, FALSE)
a_unexpected_prompt == Effect("raise", "ConnectionError", TRUE, TRUE, FALSE)
a_expected_prompt == Effect("true", None, TRUE, FALSE, FALSE)
a_save_last_pattern == Effect("true", None, FALSE, FALSE, FALSE)
\* an a_reload_na that reports success
a_reload_na_returning_true == Effect("true", None, FALSE, FALSE, FALSE)

a_reload_na == Effect("false", None, FALSE, FALSE, FALSE)
a_send_boot == Effect("true", None, FALSE, FALSE, FALSE)
a_message_callback == Effect("true", None, FALSE, FALSE, FALSE)
\* how the Device.connect called by a_reconnect can end
DeviceConnectOutcomes == {"True", "False", "raise"}
\* a_reconnect: Device.connect(ctx.ctrl) runs and its value is dropped; a
\* Device.connect returning False has marked the device disconnected
a_reconnect(outcome) ==
    CASE outcome = "True" -> Effect("true", None, FALSE, FALSE, FALSE)
      [] outcome = "False" -> Effect("true", None, FALSE, TRUE, FALSE)
      [] OTHER -> Effect("raise", "ConnectionError", FALSE, FALSE, FALSE)
\* ssh.py: ctx.spawn_session does not exist on FSM.Context
fallback_to_sshv1 == Effect("raise", "AttributeError", FALSE, FALSE, FALSE)
\* the example actions of the FSM docstring
send_newline == Effect("true", None, FALSE, FALSE, FALSE)
error == Effect("false", None, FALSE, FALSE, FALSE)

ActionEffect(name, username, password, reconnect) ==
    CASE name = "a_send" -> a_send
      [] name = "a_send_line" -> a_send_line
      [] name = "a_send_username" -> a_send_username(username)
      [] name = "a_send_password" -> a_send_password(password)
      [] name = "a_authentication_error" -> a_authentication_error
      [] name = "a_unable_to_connect" -> a_unable_to_connect
      [] name = "a_disconnect" -> a_disconnect
      [] name = "a_connection_closed" -> a_connection_closed
      [] name = "a_stays_connected" -> a_stays_connected
      [] name = "a_unexpected_prompt" -> a_unexpected_prompt
      [] name = "a_expected_prompt" -> a_expected_prompt
      [] name = "a_save_last_pattern" -> a_save_last_pattern
      [] name = "fallback_to_sshv1" -> fallback_to_sshv1
      [] name = "send_newline" -> send_newline
      [] name = "error" -> error
      [] name = "a_reload_na" -> a_reload_na
      [] name = "a_send_boot" -> a_send_boot
      [] name = "a_message_callback" -> a_message_callback
      [] name = "a_reconnect" -> a_reconnect(reconnect)

-----------------------------------------------------------------------------
(* The FSMs the repository builds: event list, rows, initial timeout,      *)
(* max_transitions.                                                        *)

\* timeouts read from the configuration file (connect_timeout,
\* first_prompt_timeout): user-settable inputs
ConfTimeouts == {30, 0}

DefaultMaxTransitions == 20

\* the reload_timeout a caller of Driver.reload passes
ReloadTimeouts == {300}

\* generic.Driver.wait_for_string on a target behind one jumphost
WaitForString ==
    LET events == <<"syntax_error_re", "connection_closed_re", "expected_string",
                    "press_return_re", "more_re", TIMEOUT, EOF, "buffer_overflow_re",
                    NOMATCH, "jumphost_prompt_re">>
    IN [name |-> "WAIT-4-STRING",
        events |-> events,
        transitions |-> <<
            Row("syntax_error_re", {0}, -1, Exc("CommandSyntaxError"), 0),
            Row("connection_closed_re", {0}, 1, Call("a_connection_closed"), 10),
            Row(TIMEOUT, {0}, -1, Exc("CommandTimeoutError"), 0),
            Row(EOF, {0, 1}, -1, Exc("ConnectionError"), 0),
            Row("more_re", {0}, 0, Call("a_send"), 10),
            Row("expected_string", {0, 1}, -1, Call("a_expected_prompt"), 0),
            Row("press_return_re", {0}, -1, Call("a_stays_connected"), 0),
            Row("buffer_overflow_re", {0}, -1, Exc("CommandSyntaxError"), 0),
            Row(NOMATCH, {0, 1}, 0, Call("a_unexpected_prompt"), 0),
            Row("jumphost_prompt_re", {0, 1}, 0, Call("a_unexpected_prompt"), 0) >>,
        timeout |-> 60,
        max_transitions |-> DefaultMaxTransitions]

\* IOS.Driver.enable
IosEnable ==
    [name |-> "IOS-ENABLE",
     events |-> <<"password_re", "prompt_re", TIMEOUT, EOF>>,
     transitions |-> <<
        Row("password_re", {0}, 1, Call("a_send_password"), 10),
        Row("password_re", {1}, -1, Exc("ConnectionAuthenticationError"), 0),
        Row("prompt_re", {0, 1, 2, 3}, -1, Call("a_expected_prompt"), 0),
        Row(TIMEOUT, {0, 1, 2}, -1, Exc("ConnectionAuthenticationError"), 0),
        Row(EOF, {0, 1, 2}, -1, Exc("ConnectionError"), 0) >>,
     timeout |-> 10,
     max_transitions |-> 5]

\* IOS.Driver.reload
IosReload ==
    [name |-> "IOS-RELOAD",
     events |-> <<"SAVE_CONFIG", "PROCEED", TIMEOUT, EOF>>,
     transitions |-> <<
        Row("SAVE_CONFIG", {0}, 1, Call("a_send_line"), 60),
        Row("PROCEED", {0, 1}, 2, Call("a_send"), 10),
        Row(TIMEOUT, {0}, 0, Call("a_send_line"), 10),
        Row(TIMEOUT, {2}, -1, Call("a_disconnect"), 0),
        Row(EOF, {0, 1, 2}, -1, Call("a_disconnect"), 0) >>,
     timeout |-> 10,
     max_transitions |-> 5]

\* SSH.connect
SshConnect(connect_timeout) ==
    [name |-> "SSH-CONNECT",
     events |-> <<"password_re", "prompt_re", "unable_to_connect_re", "NEWSSHKEY",
                  "KNOWN_HOSTS", "HOST_KEY_FAILED", "MODULUS_TOO_SMALL", "PROTOCOL_DIFFER",
                  "timeout_re", TIMEOUT>>,
     transitions |-> <<
        Row("password_re", {0, 1, 4, 5}, -1, Call("a_save_last_pattern"), 0),
        Row("prompt_re", {0}, -1, Call("a_save_last_pattern"), 0),
        Row("unable_to_connect_re", {0}, -1, Call("a_unable_to_connect"), 0),
        Row("NEWSSHKEY", {0}, 1, Call("a_send_line"), 10),
        Row("KNOWN_HOSTS", {0, 1}, 0, NoAct, 0),
        Row("HOST_KEY_FAILED", {0}, -1, Exc("ConnectionError"), 0),
        Row("MODULUS_TOO_SMALL", {0}, 0, Call("fallback_to_sshv1"), 0),
        Row("PROTOCOL_DIFFER", {0}, 4, Call("fallback_to_sshv1"), 0),
        Row("PROTOCOL_DIFFER", {4}, -1, Exc("ConnectionError"), 0),
        Row(TIMEOUT, {0}, 5, Call("a_send"), 10),
        Row(TIMEOUT, {5}, -1, Exc("ConnectionTimeoutError"), 0),
        Row("timeout_re", {0}, -1, Exc("ConnectionTimeoutError"), 0) >>,
     timeout |-> connect_timeout,
     max_transitions |-> DefaultMaxTransitions]

\* SSH.authenticate; the TIMEOUT row depends on the hop being the target
SshAuth(is_target, first_prompt_timeout) ==
    [name |-> "SSH-AUTH",
     events |-> <<"press_return_re", "password_re", "prompt_re", TIMEOUT>>,
     transitions |-> <<
        Row("press_return_re", {0, 1}, 1, Call("a_send"), 10),
        Row("password_re", {0}, 1, Call("a_send_password"), first_prompt_timeout),
        Row("password_re", {1}, -1, Call("a_authentication_error"), 0),
        Row("prompt_re", {0, 1}, -1, NoAct, 0),
        Row(TIMEOUT, {1}, -1, IF is_target THEN Exc("ConnectionError") ELSE Call("a_send"), 0) >>,
     timeout |-> 30,
     max_transitions |-> DefaultMaxTransitions]

\* XR.Driver.reload
XrReload(reload_timeout) ==
    [name |-> "RELOAD",
     events |-> <<"RELOAD_NA", "DONE", "PROCEED", "CONFIGURATION_IN_PROCESS", "rommon_re",
                  "press_return_re", "CONSOLE", "CONFIGURATION_COMPLETED",
                  "RECONFIGURE_USERNAME_PROMPT", TIMEOUT, EOF, "reload_cmd",
                  "ROOT_USERNAME_PROMPT", "ROOT_PASSWORD_PROMPT", "CANDIDATE_BOOT_IMAGE">>,
     transitions |-> <<
        Row("RELOAD_NA", {0}, -1, Call("a_reload_na"), 0),
        Row("DONE", {0}, 2, NoAct, 120),
        Row("PROCEED", {2}, 3, Call("a_send"), reload_timeout),
        Row("rommon_re", {0, 3}, 3, Call("a_send_boot"), 600),
        Row("CANDIDATE_BOOT_IMAGE", {0, 3}, 4, Call("a_message_callback"), 600),
        Row("CONSOLE", {0, 1, 3, 4}, 5, NoAct, 600),
        Row("press_return_re", {5}, 6, Call("a_send"), 300),
        Row("RECONFIGURE_USERNAME_PROMPT", {6, 7}, 8, NoAct, 10),
        Row("ROOT_USERNAME_PROMPT", {8}, 9, Call("a_send_username"), 1),
        Row("ROOT_PASSWORD_PROMPT", {9}, 9, Call("a_send_password"), 1),
        Row("CONFIGURATION_IN_PROCESS", {6, 9}, 7, NoAct, 180),
        Row("CONFIGURATION_COMPLETED", {7}, -1, Call("a_reconnect"), 0),
        Row(TIMEOUT, {0, 1, 2}, -1, Exc("ConnectionAuthenticationError"), 0),
        Row(EOF, {0, 1, 2, 3, 4, 5}, -1, Exc("ConnectionError"), 0),
        Row(TIMEOUT, {6}, 7, Call("a_send"), 180),
        Row(TIMEOUT, {7}, -1, Exc("ConnectionAuthenticationError"), 0) >>,
     timeout |-> 600,
     max_transitions |-> DefaultMaxTransitions]

\* a telnet authentication that answers every username prompt
TelnetAuthAnsweringEveryUsername(connect_timeout, first_prompt_timeout) ==
    [name |-> "TELNET-AUTH",
     events |-> <<"username_re", "password_re", "prompt_re", "rommon_re",
                  "unable_to_connect_re", "authentication_error_re", TIMEOUT, EOF>>,
     transitions |-> <<
        Row("username_re", {0}, 1, Call("a_send_username"), 10),
        Row("username_re", {1}, 1, Call("a_send_username"), 10),
        Row("password_re", {0, 1}, 2, Call("a_send_password"), first_prompt_timeout),
        Row("username_re", {2}, -1, Call("a_authentication_error"), 0),
        Row("password_re", {2}, -1, Call("a_authentication_error"), 0),
        Row("authentication_error_re", {1, 2}, -1, Call("a_authentication_error"), 0),
        Row("prompt_re", {0, 1, 2}, -1, NoAct, 0),
        Row("rommon_re", {0}, -1, Call("a_send"), 0),
        Row(TIMEOUT, {0}, 1, Call("a_send"), 10),
        Row(TIMEOUT, {2}, -1, NoAct, 0),
        Row(TIMEOUT, {3, 7}, -1, Exc("ConnectionTimeoutError"), 0),
        Row("unable_to_connect_re", {0, 1, 2}, -1, Call("a_unable_to_connect"), 0) >>,
     timeout |-> connect_timeout,
     max_transitions |-> DefaultMaxTransitions]

\* Telnet.authenticate
TelnetAuth(connect_timeout, first_prompt_timeout) ==
    [name |-> "TELNET-AUTH",
     events |-> <<"username_re", "password_re", "prompt_re", "rommon_re",
                  "unable_to_connect_re", "authentication_error_re", TIMEOUT, EOF>>,
     transitions |-> <<
        Row("username_re", {0}, 1, Call("a_send_username"), 10),
        Row("username_re", {1}, 1, NoAct, 10),
        Row("password_re", {0, 1}, 2, Call("a_send_password"), first_prompt_timeout),
        Row("username_re", {2}, -1, Call("a_authentication_error"), 0),
        Row("password_re", {2}, -1, Call("a_authentication_error"), 0),
        Row("authentication_error_re", {1, 2}, -1, Call("a_authentication_error"), 0),
        Row("prompt_re", {0, 1, 2}, -1, NoAct, 0),
        Row("rommon_re", {0}, -1, Call("a_send"), 0),
        Row(TIMEOUT, {0}, 1, Call("a_send"), 10),
        Row(TIMEOUT, {2}, -1, NoAct, 0),
        Row(TIMEOUT, {3, 7}, -1, Exc("ConnectionTimeoutError"), 0),
        Row("unable_to_connect_re", {0, 1, 2}, -1, Call("a_unable_to_connect"), 0) >>,
     timeout |-> connect_timeout,
     max_transitions |-> DefaultMaxTransitions]

\* the example of Connection.run_fsm's docstring (Device.run_fsm)
DeleteDir ==
    [name |-> "DELETE_DIR",
     events |-> <<"prompt", "REMOVE_DIR", "DELETE_CONFIRM", "REMOVE_ERROR", TIMEOUT>>,
     transitions |-> <<
        Row("REMOVE_DIR", {0}, 1, Call("send_newline"), 5),
        Row("DELETE_CONFIRM", {1}, 2, Call("send_newline"), 5),
        Row("REMOVE_ERROR", {0}, 2, NoAct, 0),
        Row("prompt", {2}, -1, NoAct, 0),
        Row(TIMEOUT, {0, 1, 2}, -1, Call("error"), 0) >>,
     timeout |-> 5,
     max_transitions |-> DefaultMaxTransitions]

FsmConfigs ==
    {WaitForString, IosEnable, IosReload, DeleteDir}
    \cup {SshConnect(ct) : ct \in ConfTimeouts}
    \cup {TelnetAuth(ct, fpt) : ct \in ConfTimeouts, fpt \in ConfTimeouts}
    \cup {SshAuth(is_target, fpt) : is_target \in BOOLEAN, fpt \in ConfTimeouts}

\* init_pattern values a caller can pass: nothing, a pattern saved by
\* a_save_last_pattern, or a pattern that is not in the event list
InitPatterns == {None, "password_re", "prompt_re", "not_an_event"}

-----------------------------------------------------------------------------
(* Connection, Chain, Device and Controller                                *)

\* number of connection chains of the Connection, and hops of every chain;
\* the last hop of a chain is the target, the others are jumphosts
NChains == 3
ChainLen == 2
\* number of API calls (connect, disconnect) of one behaviour
MaxCalls == 2

Chains == 0..(NChains - 1)
Devs == 1..ChainLen
IsTarget(d) == d = ChainLen

\* prompts a hop can show: a jumphost shell, a router in exec mode, the same
\* router in configuration mode, and the admin plane (its prompt holds "admin")
JumphostPrompts == {"jh$"}
TargetPrompts == {"ios#", "ios(config)#", "sysadmin-vm:0_RP0#"}
LivePrompts(is_target) == IF is_target THEN TargetPrompts ELSE JumphostPrompts

\* Python `word in prompt` on the prompts above
PromptContains(prompt, word) ==
    CASE word = "config" -> prompt = "ios(config)#"
      [] word = "admin" -> prompt = "sysadmin-vm:0_RP0#"
      [] OTHER -> FALSE

\* Driver.update_config_mode
update_config_mode_ignoring_admin(prompt) ==
    IF PromptContains(prompt, "config") THEN "config" ELSE "global"

update_config_mode(prompt) ==
    IF PromptContains(prompt, "config") THEN "config"
    ELSE IF PromptContains(prompt, "admin") THEN "admin"
    ELSE "global"

\* Driver.base_prompt: the prompt without its mode decoration; a jumphost
\* prompt and a prompt the pattern does not match are returned as they are
base_prompt(prompt, is_target) ==
    IF prompt = None THEN None
    ELSE IF ~is_target THEN prompt
    ELSE IF prompt = "ios(config)#" THEN "ios#"
    ELSE prompt

\* the matcher built by make_dynamic_prompt(prompt) matches the text `live`:
\* the same host name with any mode decoration
PromptDynamicMatches(prompt, live, is_target) ==
    /\ prompt # None
    /\ live # None
    /\ base_prompt(prompt, is_target) = base_prompt(live, is_target)

\* exceptions: class and message
Raise(cls, msg) == [cls |-> cls, msg |-> msg]
NoExc == Raise(None, None)

\* `except (ConnectionTimeoutError, ConnectionError)` in Connection.connect;
\* ConnectionAuthenticationError is a subclass of ConnectionError
Caught(cls) == cls \in {"ConnectionError", "ConnectionTimeoutError", "ConnectionAuthenticationError"}

\* Device.__init__; fsms_ok records, for a device that is marked connected,
\* that the connect and authenticate FSMs of its last Device.connect succeeded
NewDevice == [connected |-> FALSE, prompt |-> None, mode |-> None, os_version |-> None,
              fsms_ok |-> FALSE]

\* Device.clear_info: the discovered attributes and the prompt are forgotten,
\* connected and mode are kept
clear_info(device) == [device EXCEPT !.prompt = None, !.os_version = None]

\* Chain.update(None), for every chain
ClearInfo(devs) == [c \in Chains |-> [d \in Devs |-> clear_info(devs[c][d])]]

\* Device.device_info (getter): what the cache keeps of a device
device_info(device, is_target) ==
    [prompt |-> base_prompt(device.prompt, is_target), mode |-> device.mode,
     os_version |-> device.os_version]

\* Connection.description_record (getter)
description_record(devs, index) ==
    [present |-> TRUE,
     info |-> [c \in Chains |-> [d \in Devs |-> device_info(devs[c][d], IsTarget(d))]],
     last_chain |-> index]

\* no entry under the connection's key
NoRecord ==
    [present |-> FALSE,
     info |-> [c \in Chains |-> [d \in Devs |->
                 [prompt |-> None, mode |-> None, os_version |-> None]]],
     last_chain |-> 0]

\* the record an earlier run of the program left under the key after it
\* connected over chain k: the hops of that chain with their base prompts
CachedBy(k) ==
    [present |-> TRUE,
     info |-> [c \in Chains |-> [d \in Devs |->
                 IF c = k
                 THEN [prompt |-> IF IsTarget(d) THEN "ios#" ELSE "jh$", mode |-> "global",
                       os_version |-> "known"]
                 ELSE [prompt |-> None, mode |-> None, os_version |-> None]]],
     last_chain |-> k]

CacheAtStart == {NoRecord} \cup {CachedBy(k) : k \in Chains}

\* Connection._read_cache, description_record setter: devices
ReadCacheDevices(devs, record) ==
    IF record.present
    THEN [c \in Chains |-> [d \in Devs |->
            [devs[c][d] EXCEPT !.prompt = record.info[c][d].prompt,
                               !.mode = record.info[c][d].mode,
                               !.os_version = record.info[c][d].os_version]]]
    ELSE devs

\* Connection._read_cache, description_record setter: _last_chain_index
ReadCacheIndex(index, record) == IF record.present THEN record.last_chain ELSE index

\* deque.rotate(k): rotate k steps to the right
Rotate(seq, k) ==
    [i \in 1..Len(seq) |-> seq[((i - 1 - k) % Len(seq)) + 1]]

\* range(n)
Range0(n) == [i \in 1..n |-> i - 1]

\* Connection._chain_indices
_chain_indices(index) == Rotate(Range0(NChains), index)

\* a tail_disconnect that marks devices[:index + 2] disconnected
tail_disconnect_of_the_head(chain, index) ==
    [d \in Devs |-> IF d - 1 <= index + 1
                    THEN [chain[d] EXCEPT !.connected = FALSE, !.fsms_ok = FALSE]
                    ELSE chain[d]]

\* Chain.tail_disconnect(index): devices[index + 1:] are marked disconnected
tail_disconnect(chain, index) ==
    [d \in Devs |-> IF d - 1 >= index + 1
                    THEN [chain[d] EXCEPT !.connected = FALSE, !.fsms_ok = FALSE]
                    ELSE chain[d]]

\* Device.connect: `if connect(): if authenticate(): ... self.connected = True`
MarksConnectedAfterConnect(conn, auth) == conn = "True"

MarksConnected(conn, auth) == conn = "True" /\ auth = "True"

\* What the far end does during one Device.connect:
\*   conn  result of the protocol's connect FSM
\*   auth  result of the protocol's authenticate FSM
\*   read  try_read_prompt: "ok" or the session ends
\*   live  the prompt the device shows (None: no stable prompt)
\*   post  the commands sent after the device is marked connected
\*   dies  the child process ends with the failure
ConnResults == {"True", "False_unable", "False_looped", "ConnectionTimeoutError", "ConnectionError"}
AuthResults == {"True", "False", "ConnectionAuthenticationError", "ConnectionTimeoutError",
                "ConnectionError"}
PostResults == {"quiet", "send", "ConnectionError", "ConnectionError_unexpected_prompt",
                "ConnectionAuthenticationError", "CommandTimeoutError"}

Far(conn, auth, read, live, post, dies) ==
    [conn |-> conn, auth |-> auth, read |-> read, live |-> live, post |-> post, dies |-> dies]

FarEnds(is_target) ==
    {Far(c, "True", "ok", None, "quiet", FALSE) : c \in ConnResults \ {"True", "False_unable"}}
    \cup {Far("False_unable", "True", "ok", None, "quiet", dies) : dies \in BOOLEAN}
    \cup {Far("True", a, "ok", None, "quiet", FALSE) : a \in AuthResults \ {"True"}}
    \cup {Far("True", "True", "ConnectionError", None, "quiet", FALSE)}
    \cup {Far("True", "True", "ok", live, post, FALSE) :
             live \in LivePrompts(is_target) \cup {None}, post \in PostResults}

\* the outcome of Device.connect
Outcome(device, ret, exc, msg, chain_disconnect, session_ends, checked) ==
    [device |-> device, ret |-> ret, exc |-> exc, last_error_msg |-> msg,
     chain_disconnect |-> chain_disconnect, session_ends |-> session_ends, checked |-> checked]

NotGlobalMsg == "Device is not in global mode. Disconnected."

\* discovery that does not look at what the device holds
DiscoversAlways(device) == TRUE

\* `if self.os_version is None: self.update_os_version()`: an attribute is
\* discovered only when the device does not hold it
Discovers(device) == device.os_version = None

\* Device._connected_to_target / update_os_version of a jumphost, after
\* `self.connected = True`: a command that reaches the prompt runs
\* a_expected_prompt, which takes prompt and mode from the matched text;
\* attributes that are None are discovered with such commands
AfterConnected(dev, is_target, far) ==
    LET marked == [dev EXCEPT !.connected = TRUE,
                              !.fsms_ok = far.conn = "True" /\ far.auth = "True"]
    IN
    CASE far.post = "quiet" ->
            Outcome(marked, "True", NoExc, None, FALSE, FALSE, dev.prompt)
      [] far.post = "send" ->
            Outcome([marked EXCEPT !.prompt = far.live, !.mode = update_config_mode(far.live),
                                   !.os_version = IF Discovers(dev) THEN "discovered" ELSE @],
                    "True", NoExc, None, FALSE, FALSE, dev.prompt)
      [] far.post = "ConnectionError" ->
            Outcome(marked, "raise", Raise("ConnectionError", "Session disconnected"),
                    None, FALSE, TRUE, dev.prompt)
      [] far.post = "ConnectionError_unexpected_prompt" ->
            Outcome(dev, "raise", Raise("ConnectionError", "Unable to connect to the device."),
                    None, FALSE, FALSE, dev.prompt)
      [] far.post = "ConnectionAuthenticationError" ->
            Outcome(marked, "raise", Raise("ConnectionAuthenticationError", "Authentication failed"),
                    None, FALSE, TRUE, dev.prompt)
      [] OTHER ->
            Outcome(marked, "raise", Raise("CommandTimeoutError", "Timeout"),
                    None, FALSE, FALSE, dev.prompt)

\* a far end the device can meet: a command reaches the prompt only if the
\* device's matcher matches what the device shows, no command reaches it
\* only if nothing is left to discover, and a command that can fail on
\* authentication (enable) is sent to a target only
FarPossible(device, is_target, far) ==
    LET prompt == IF device.prompt # None THEN device.prompt ELSE far.live
    IN
    /\ far.post = "send" => PromptDynamicMatches(prompt, far.live, is_target)
    /\ far.post = "quiet" => device.os_version # None
    /\ far.post = "ConnectionError_unexpected_prompt" => is_target
    /\ far.post = "ConnectionAuthenticationError" => is_target

\* Device.connect
DeviceConnect(device, is_target, far) ==
    LET dev0 == device
        prompt == IF device.prompt # None THEN device.prompt ELSE far.live
        dev1 == [dev0 EXCEPT !.prompt = prompt]
        mode == update_config_mode(prompt)
        dev2 == [dev1 EXCEPT !.mode = mode]
    IN
    IF far.conn \in {"False_unable", "False_looped"}
    THEN Outcome([dev0 EXCEPT !.connected = FALSE, !.fsms_ok = FALSE], "False", NoExc,
                 IF far.conn = "False_unable" THEN "Connection refused" ELSE None,
                 FALSE, far.dies, None)
    ELSE IF far.conn # "True"
    THEN Outcome(dev0, "raise", Raise(far.conn, "Connection error"), None, FALSE,
                 far.conn = "ConnectionError", None)
    ELSE IF far.auth \notin {"True", "False"}
    THEN Outcome(dev0, "raise", Raise(far.auth, "Authentication error"), None, FALSE,
                 far.auth \in {"ConnectionError", "ConnectionAuthenticationError"}, None)
    ELSE IF ~MarksConnected(far.conn, far.auth)
    THEN \* authenticate() returned a false value: connect() falls off its end
         Outcome(dev0, "None", NoExc, None, FALSE, FALSE, None)
    ELSE IF far.read # "ok"
    THEN Outcome(dev0, "raise", Raise("ConnectionError", "Session disconnected"), None, FALSE,
                 TRUE, None)
    ELSE IF prompt = None
    THEN \* 'config' in None, re.escape(None)
         Outcome(dev1, "raise", Raise("TypeError", "NoneType"), None, FALSE, FALSE, None)
    ELSE IF is_target /\ mode # "global"
    THEN Outcome(dev2, "False", NoExc, NotGlobalMsg, TRUE, TRUE, prompt)
    ELSE AfterConnected(IF is_target THEN dev2 ELSE dev1, is_target, far)

-----------------------------------------------------------------------------
VARIABLES
    fsm,                \* the FSM object: name, events, transition_table, max_transitions, credentials
    init_pattern,       \* FSM.init_pattern
    init_given,         \* an init_pattern was passed to the constructor
    timeout,            \* run(): the running timeout
    transition_counter, \* run(): loop counter
    ctx,                \* FSM.Context: event, state, finished
    run_result,         \* "running", "True", "False" or "raised"
    run_exc,            \* the exception that left run()
    dev_connected,      \* ctx.device.connected
    ctrl_alive,         \* the controller's session is alive
    last,               \* the last loop iteration: what happened and the values before it
    n_expect,           \* number of ctrl.expect calls of this run
    n_action            \* number of callable actions invoked by this run

fsm_vars == <<fsm, init_pattern, init_given, timeout, transition_counter, ctx, run_result, run_exc,
              dev_connected, ctrl_alive, last, n_expect, n_action>>

VARIABLES
    devices,            \* devices[c][d]: connected, prompt, mode of hop d of chain c
    ctrl_session,       \* ctrl_session[c]: the controller of chain c has a live child
    last_chain_index,   \* Connection._last_chain_index
    cache,              \* the cache entry of this connection's key
    pc,                 \* "idle", or "connect" inside Connection.connect
    chain_indices,      \* connect(): chain indices still to be tried (current one first)
    cur_dev,            \* Chain.connect: next device of the loop, 0 outside Chain.connect
    excpt,              \* connect(): exception raised when no chain connects
    attempts,           \* chain indices tried by the current / last connect, in order
    start_index,        \* _last_chain_index when _chain_indices() was called
    calls,              \* number of API calls made so far
    ev                  \* the last step: what ran and how it ended

conn_vars == <<devices, ctrl_session, last_chain_index, cache, pc, chain_indices, cur_dev,
               excpt, attempts, start_index, calls, ev>>

VARIABLES
    rc,                 \* Connection.reconnect: its locals and how the call ended
    kc,                 \* two Connection objects and the cache file they share
    snd,                \* Device.send: the target it runs on and how the call ended
    en,                 \* Driver.enable: the target it runs on and how the call ended
    hp,                 \* Chain.__init__: the URLs of a chain and the devices made from them
    pd                  \* Protocol.disconnect: the target's adapter and what it writes

ext_vars == <<rc, kc, snd, en, hp, pd>>
ext_not_rc == <<kc, snd, en, hp, pd>>
ext_not_kc == <<rc, snd, en, hp, pd>>
ext_not_snd == <<rc, kc, en, hp, pd>>
ext_not_en == <<rc, kc, snd, hp, pd>>
ext_not_hp == <<rc, kc, snd, en, pd>>
ext_not_pd == <<rc, kc, snd, en, hp>>

vars == <<fsm_vars, conn_vars, ext_vars>>

NoLast == [kind |-> "none", pre_state |-> 0, pre_timeout |-> 0, pre_finished |-> FALSE,
           pre_n_action |-> 0, entry |-> NoEntry, act_ret |-> None, expected |-> FALSE, eof |-> FALSE]

\* no FSM is running while the connection layer is observed
FsmIdle ==
    /\ fsm = [name |-> WaitForString.name,
              events |-> WaitForString.events,
              transition_table |-> _compile(WaitForString.transitions, WaitForString.events),
              max_transitions |-> WaitForString.max_transitions,
              username |-> FALSE,
              password |-> FALSE]
    /\ timeout = WaitForString.timeout
    /\ init_pattern = None
    /\ init_given = FALSE
    /\ transition_counter = 0
    /\ ctx = [event |-> NoEvent, state |-> 0, finished |-> FALSE, sent |-> << >>, hits |-> << >>]
    /\ run_result = "idle"
    /\ run_exc = None
    /\ dev_connected = TRUE
    /\ ctrl_alive = TRUE
    /\ last = NoLast
    /\ n_expect = 0
    /\ n_action = 0

NoEv == [act |-> "none", chain |-> 0, dev |-> 0, ret |-> None, exc |-> NoExc, checked |-> None,
         result |-> None, force |-> FALSE, discovery |-> FALSE, steps |-> << >>,
         was_connected |-> FALSE, alive |-> FALSE, spawn |-> << >>]

NoRc == [phase |-> "idle", max_timeout |-> 0, elapsed |-> 0, sleep_time |-> 0, slept |-> 0,
         result |-> None, exc |-> NoExc, last_exc |-> NoExc, prompt |-> None,
         index |-> -2]

NoKc == [urls |-> << >>, file |-> << >>, read |-> << >>]

\* the message of an exception or of the context: its text and the value
\* formatted into it
Msg(text, arg) == [text |-> text, arg |-> arg]
NoMsg == Msg(None, None)

NoSnd == [phase |-> "idle", n |-> 0, cmd |-> None, wrote |-> FALSE, result |-> None,
          exc |-> None, command |-> None, prev |-> None, prompt |-> None, mode |-> None,
          after |-> None, ctx_msg |-> NoMsg, msg |-> NoMsg, more |-> 0, spaces |-> 0,
          before |-> << >>, output |-> << >>,
          pre |-> [connected |-> FALSE, alive |-> FALSE, prompt |-> None, mode |-> None]]

NoEn == [phase |-> "idle", n |-> 0, wrote |-> FALSE, result |-> None, exc |-> None,
         prompt |-> None, pre_prompt |-> None]

NoHp == [urls |-> << >>, devices |-> << >>, result |-> None, exc |-> None]

\* no reconnect is running, no second Connection is observed, no send and
\* no enable is made, no chain is being built
NoPd == [protocol_name |-> None, mode |-> None, phase |-> "idle", written |-> << >>,
         exits |-> 0, exc |-> None]

ExtIdle == rc = NoRc /\ kc = NoKc /\ snd = NoSnd /\ en = NoEn /\ hp = NoHp /\ pd = NoPd

\* Connection.__init__: chains of fresh devices, controllers without a child,
\* _last_chain_index 0; the cache file holds nothing for the key
ConnStart ==
    /\ devices = [c \in Chains |-> [d \in Devs |-> NewDevice]]
    /\ ctrl_session = [c \in Chains |-> FALSE]
    /\ last_chain_index = 0
    /\ cache = NoRecord
    /\ pc = "idle"
    /\ chain_indices = << >>
    /\ cur_dev = 0
    /\ excpt = NoExc
    /\ attempts = << >>
    /\ start_index = 0
    /\ calls = 0
    /\ ev = NoEv

\* FSM.__init__ followed by the first lines of run(): the context starts in state 0
FsmInit ==
    /\ \E cfg \in FsmConfigs, username \in BOOLEAN, password \in BOOLEAN :
          /\ fsm = [name |-> cfg.name,
                    events |-> cfg.events,
                    transition_table |-> _compile(cfg.transitions, cfg.events),
                    max_transitions |-> cfg.max_transitions,
                    username |-> username,
                    password |-> password]
          /\ timeout = cfg.timeout
    /\ init_pattern \in InitPatterns
    /\ init_given = (init_pattern # None)
    /\ transition_counter = 0
    /\ ctx = [event |-> NoEvent, state |-> 0, finished |-> FALSE, sent |-> << >>, hits |-> << >>]
    /\ run_result = "running"
    /\ run_exc = None
    /\ dev_connected = TRUE
    /\ ctrl_alive = TRUE
    /\ last = NoLast
    /\ n_expect = 0
    /\ n_action = 0
    /\ ConnStart
    /\ ExtIdle

\* exceptions leaving the try block: pexpect.EOF becomes ConnectionError
ExceptEOFUnconverted(exc) == exc

ExceptEOF(exc) == IF exc = EOF THEN "ConnectionError" ELSE exc

\* run(): `while transition_counter < self.max_transitions`
WhileConditionOffByOne(counter, max_transitions) == counter <= max_transitions

WhileCondition(counter, max_transitions) == counter < max_transitions

Looping == run_result = "running" /\ WhileCondition(transition_counter, fsm.max_transitions)

\* run(): `if key in self.transition_table`: exact (event_index, state) lookup
LookupAnyState(table, key) ==
    IF key \in DOMAIN table THEN table[key]
    ELSE IF <<key[1], 0>> \in DOMAIN table THEN table[<<key[1], 0>>]
    ELSE NoEntry

Lookup(table, key) == IF key \in DOMAIN table THEN table[key] ELSE NoEntry

\* run(): `if ctx.finished or next_state == -1: return True`
SuccessOnStateZero(finished, next_state) == finished \/ next_state = -1 \/ next_state = 0

Success(finished, next_state) == finished \/ next_state = -1

\* run(): how the iteration ends for the action's outcome: a false return
\* value returns False, an exception leaves run(), otherwise the success test
ResultOfIgnoringFalse(ret, finished, next_state) ==
    IF ret = "raise" THEN "raised"
    ELSE IF Success(finished, next_state) THEN "True" ELSE "running"

ResultOfSwallowingRaise(ret, finished, next_state) ==
    IF ret = "true"
    THEN IF Success(finished, next_state) THEN "True" ELSE "running"
    ELSE "False"

ResultOf(ret, finished, next_state) ==
    IF ret = "true"
    THEN IF Success(finished, next_state) THEN "True" ELSE "running"
    ELSE IF ret = "false" THEN "False" ELSE "raised"

\* run(): `if next_timeout != 0: timeout = next_timeout`, reached only when
\* the action neither failed nor raised
NextTimeoutAlways(ret, current, next_timeout) ==
    IF ret = "true" THEN next_timeout ELSE current

NextTimeout(ret, current, next_timeout) ==
    IF ret = "true" /\ next_timeout # 0 THEN next_timeout ELSE current

\* run(): `ctx.state = next_state`, reached only when the action neither
\* failed nor raised
NextState(ret, state, next_state) == IF ret = "true" THEN next_state ELSE state

\* the events of the reload dialog that mark its progress
ReloadMilestones == {"CONSOLE", "press_return_re", "CONFIGURATION_COMPLETED"}

\* the milestones of the reload dialog that have had a row of the table
\* taken so far, in the order they first had one
Matched(name, hits, event) ==
    IF name = "RELOAD" /\ event \in ReloadMilestones /\ ~SeqContains(hits, event)
    THEN Append(hits, event) ELSE hits

\* what the action of a row writes to the controller, as far as the
\* dialogs of the protocols go: the username and the password of the hop
\* (a_send_username, a_send_password with a credential to send) and the text
\* of an a_send that answers TIMEOUT
Written(act, event, username, password) ==
    IF act.kind # "call" THEN << >>
    ELSE IF act.name = "a_send_username" /\ username THEN <<"username">>
    ELSE IF act.name = "a_send_password" /\ password THEN <<"password">>
    ELSE IF act.name = "a_send" /\ event = TIMEOUT THEN <<"text_on_timeout">>
    ELSE << >>

\* how the Device.connect of a row's a_reconnect can end
ReconnectOutcomes(act) ==
    IF act.kind = "call" /\ act.name = "a_reconnect" THEN DeviceConnectOutcomes ELSE {"True"}

\* The body of one loop iteration once the event index is known:
\* table lookup, action, timeout and state update, success test.
Dispatch(event, expected) ==
    LET key == <<event, ctx.state>>
        entry == Lookup(fsm.transition_table, key)
        pre == [pre_state |-> ctx.state, pre_timeout |-> timeout,
                pre_finished |-> ctx.finished, pre_n_action |-> n_action,
                expected |-> expected,
                eof |-> (expected /\ fsm.events[event + 1] = EOF)]
    IN
    IF entry # NoEntry
    THEN
        \E reconnect \in ReconnectOutcomes(entry.act) :
        LET act == entry.act
            eff == IF act.kind = "call"
                   THEN ActionEffect(act.name, fsm.username, fsm.password, reconnect)
                   ELSE IF act.kind = "none"
                   THEN Effect("true", None, FALSE, FALSE, FALSE)
                   ELSE IF act.kind = "exc"
                   THEN Effect("raise", act.name, FALSE, FALSE, FALSE)
                   ELSE Effect("raise", "RuntimeWarning", FALSE, FALSE, FALSE)
            finished == ctx.finished \/ eff.finished
            result == ResultOf(eff.ret, finished, entry.next_state)
        IN
        /\ n_action' = IF act.kind = "call" THEN n_action + 1 ELSE n_action
        /\ dev_connected' = (dev_connected /\ ~eff.dev_disconnect)
        /\ ctrl_alive' = (ctrl_alive /\ ~eff.ctrl_disconnect)
        /\ last' = pre @@ [kind |-> "hit", entry |-> entry, act_ret |-> eff.ret]
        /\ timeout' = NextTimeout(eff.ret, timeout, entry.timeout)
        /\ ctx' = [event |-> event,
                   state |-> NextState(eff.ret, ctx.state, entry.next_state),
                   finished |-> finished,
                   sent |-> ctx.sent \o Written(act, fsm.events[event + 1],
                                                fsm.username, fsm.password),
                   hits |-> Matched(fsm.name, ctx.hits, fsm.events[event + 1])]
        /\ run_result' = result
        /\ run_exc' = IF result = "raised" THEN ExceptEOF(eff.exc) ELSE None
    ELSE
        \* Unknown transition: warning and continue
        /\ last' = pre @@ [kind |-> "miss", entry |-> NoEntry, act_ret |-> None]
        /\ ctx' = [ctx EXCEPT !.event = event]
        /\ UNCHANGED <<timeout, run_result, run_exc, dev_connected, ctrl_alive, n_action>>

\* iteration with init_pattern set: no expect; the event is the index of
\* init_pattern, an unknown init_pattern only uses up the iteration
RunInitPattern ==
    /\ Looping
    /\ init_pattern # None
    /\ transition_counter' = transition_counter + 1
    /\ init_pattern' = None
    /\ n_expect' = n_expect
    /\ IF SeqContains(fsm.events, init_pattern)
       THEN Dispatch(IndexOf(fsm.events, init_pattern), FALSE)
       ELSE /\ last' = [NoLast EXCEPT !.kind = "init_unknown", !.pre_state = ctx.state,
                                      !.pre_timeout = timeout, !.pre_finished = ctx.finished,
                                      !.pre_n_action = n_action]
            /\ UNCHANGED <<timeout, ctx, run_result, run_exc, dev_connected, ctrl_alive,
                           n_action>>
    /\ UNCHANGED <<fsm, init_given>>
    /\ UNCHANGED <<conn_vars, ext_vars>>

\* a pattern the controller can report as matched
Matchable(pattern) == pattern # NOMATCH

\* iteration whose ctrl.expect returns the index of a listed event
\* (a pattern, or TIMEOUT / EOF when they are listed)
Expect ==
    /\ Looping
    /\ init_pattern = None
    /\ transition_counter' = transition_counter + 1
    /\ n_expect' = n_expect + 1
    /\ \E event \in 0..(Len(fsm.events) - 1) :
          /\ Matchable(fsm.events[event + 1])
          /\ Dispatch(event, TRUE)
    /\ UNCHANGED <<fsm, init_pattern, init_given>>

RunExpect ==
    /\ Expect
    /\ UNCHANGED <<conn_vars, ext_vars>>

\* iteration whose ctrl.expect raises: pexpect.EOF or pexpect.TIMEOUT
\* that is not in the event list
RunExpectRaises ==
    /\ Looping
    /\ init_pattern = None
    /\ transition_counter' = transition_counter + 1
    /\ n_expect' = n_expect + 1
    /\ \E exc \in {EOF, TIMEOUT} :
          /\ ~SeqContains(fsm.events, exc)
          /\ run_result' = "raised"
          /\ run_exc' = ExceptEOF(exc)
          /\ last' = [NoLast EXCEPT !.kind = "expect_raised", !.pre_state = ctx.state,
                                    !.pre_timeout = timeout, !.pre_finished = ctx.finished,
                                    !.pre_n_action = n_action,
                                    !.expected = TRUE, !.eof = (exc = EOF)]
    /\ UNCHANGED <<fsm, init_pattern, init_given, timeout, ctx, dev_connected, ctrl_alive, n_action>>
    /\ UNCHANGED <<conn_vars, ext_vars>>

\* the while condition fails: "FSM looped. Exiting"
RunLooped ==
    /\ run_result = "running"
    /\ ~WhileCondition(transition_counter, fsm.max_transitions)
    /\ run_result' = "False"
    /\ last' = [NoLast EXCEPT !.kind = "looped", !.pre_state = ctx.state,
                              !.pre_timeout = timeout, !.pre_finished = ctx.finished,
                                      !.pre_n_action = n_action]
    /\ UNCHANGED <<fsm, init_pattern, init_given, timeout, transition_counter, ctx, run_exc,
                   dev_connected, ctrl_alive, n_expect, n_action>>
    /\ UNCHANGED <<conn_vars, ext_vars>>

FsmNext == RunInitPattern \/ RunExpect \/ RunExpectRaises \/ RunLooped

SpecFSM == FsmInit /\ [][FsmNext]_vars

\* XR.Driver.reload: FSM.__init__ without an init_pattern, then run(); the
\* credentials of the hop are inputs
ReloadInit ==
    /\ \E reload_timeout \in ReloadTimeouts, username \in BOOLEAN, password \in BOOLEAN :
          LET cfg == XrReload(reload_timeout)
          IN /\ fsm = [name |-> cfg.name,
                       events |-> cfg.events,
                       transition_table |-> _compile(cfg.transitions, cfg.events),
                       max_transitions |-> cfg.max_transitions,
                       username |-> username,
                       password |-> password]
             /\ timeout = cfg.timeout
    /\ init_pattern = None
    /\ init_given = FALSE
    /\ transition_counter = 0
    /\ ctx = [event |-> NoEvent, state |-> 0, finished |-> FALSE, sent |-> << >>, hits |-> << >>]
    /\ run_result = "running"
    /\ run_exc = None
    /\ dev_connected = TRUE
    /\ ctrl_alive = TRUE
    /\ last = NoLast
    /\ n_expect = 0
    /\ n_action = 0
    /\ ConnStart
    /\ ExtIdle

\* TIMEOUT and EOF are both in the event list: expect always returns an index
ReloadNext == RunExpect \/ RunLooped

SpecReload == ReloadInit /\ [][ReloadNext]_vars

\* every expect returns within the running timeout, so the loop keeps moving
SpecFSMLive == SpecFSM /\ WF_vars(FsmNext)

-----------------------------------------------------------------------------
(* Connection.connect, Chain.connect, Device.connect, Connection.disconnect *)

\* Connection.connect up to the chain loop: the cache is read, or with
\* force_discovery read, cleared and written back; the order of the chains
\* is taken from _last_chain_index
ConnectBegin ==
    /\ pc = "idle"
    /\ calls < MaxCalls
    /\ \E force_discovery \in BOOLEAN :
          LET read == ReadCacheDevices(devices, cache)
              index == ReadCacheIndex(last_chain_index, cache)
          IN
          /\ devices' = IF force_discovery THEN ClearInfo(read) ELSE read
          /\ last_chain_index' = index
          /\ cache' = IF force_discovery
                      THEN description_record(ClearInfo(read), index)
                      ELSE cache
          /\ chain_indices' = _chain_indices(index)
          /\ start_index' = index
          /\ ev' = [NoEv EXCEPT !.act = "connect", !.force = force_discovery]
    /\ excpt' = Raise("ConnectionError", "Could not connect to the device.")
    /\ attempts' = << >>
    /\ cur_dev' = 0
    /\ pc' = "connect"
    /\ calls' = calls + 1
    /\ UNCHANGED ctrl_session
    /\ UNCHANGED <<fsm_vars, ext_vars>>

\* the chain loop takes the next index: `self._last_chain_index = index`
\* and Chain.connect starts with the first device
ConnectNextChain ==
    /\ pc = "connect"
    /\ cur_dev = 0
    /\ chain_indices # << >>
    /\ last_chain_index' = Head(chain_indices)
    /\ attempts' = Append(attempts, Head(chain_indices))
    /\ cur_dev' = 1
    /\ ev' = [NoEv EXCEPT !.act = "next_chain", !.chain = Head(chain_indices),
                          !.force = ev.force]
    /\ UNCHANGED <<devices, ctrl_session, cache, pc, chain_indices, excpt, start_index, calls>>
    /\ UNCHANGED <<fsm_vars, ext_vars>>

\* Chain.connect has gone through the device d of chain c without an
\* exception: the loop goes on, or after the target Chain.connect returns
\* True, the chain loop breaks and the cache is written
ChainContinues(c, d, devs, step) ==
    IF IsTarget(d)
    THEN /\ cache' = description_record(devs, last_chain_index)
         /\ pc' = "idle"
         /\ cur_dev' = 0
         /\ chain_indices' = << >>
         /\ ev' = [step EXCEPT !.result = "ok", !.force = ev.force]
         /\ excpt' = NoExc
    ELSE /\ cur_dev' = d + 1
         /\ ev' = [step EXCEPT !.force = ev.force]
         /\ UNCHANGED <<cache, pc, chain_indices, excpt>>

\* the chain loop without `excpt = e`
ChainRaisesKeepingDefault(exc, step) ==
    /\ cur_dev' = 0
    /\ IF Caught(exc.cls)
       THEN /\ chain_indices' = Tail(chain_indices)
            /\ ev' = [step EXCEPT !.exc = exc, !.force = ev.force]
            /\ UNCHANGED <<pc, excpt>>
       ELSE /\ pc' = "idle"
            /\ chain_indices' = << >>
            /\ ev' = [step EXCEPT !.exc = exc, !.result = "raised"]
            /\ excpt' = NoExc
    /\ UNCHANGED cache

\* Chain.connect raises exc: the chain loop catches the ConnectionError
\* family and goes to the next index, anything else leaves connect()
ChainRaises(exc, step) ==
    /\ cur_dev' = 0
    /\ IF Caught(exc.cls)
       THEN /\ excpt' = exc
            /\ chain_indices' = Tail(chain_indices)
            /\ ev' = [step EXCEPT !.exc = exc, !.force = ev.force]
            /\ UNCHANGED pc
       ELSE /\ pc' = "idle"
            /\ chain_indices' = << >>
            /\ ev' = [step EXCEPT !.exc = exc, !.result = "raised"]
            /\ excpt' = NoExc
    /\ UNCHANGED cache

\* Chain.connect: a device that is marked connected is passed over
ChainSkipDevice ==
    /\ pc = "connect"
    /\ cur_dev \in Devs
    /\ LET c == Head(chain_indices)
           d == cur_dev
       IN /\ devices[c][d].connected
          /\ ChainContinues(c, d, devices,
                            [NoEv EXCEPT !.act = "skip_device", !.chain = c, !.dev = d])
    /\ UNCHANGED <<devices, ctrl_session, last_chain_index, attempts, start_index, calls>>
    /\ UNCHANGED <<fsm_vars, ext_vars>>

\* a spawn_session that starts a child process whatever the session is
spawn_session_always_spawns(alive, exc) ==
    IF exc = None THEN <<"spawn">> ELSE << >>

\* Controller.spawn_session: what it does to the session, in order. With a
\* live session the command is written into it, its echo is awaited and a
\* newline is sent; without one pexpect.spawn starts a child process. exc is
\* the exception the call ends with (None: it returns); send cannot time out
spawn_session(alive, exc) ==
    IF alive
    THEN IF exc = None THEN <<"send", "expect_exact", "sendline">>
         ELSE IF exc = "ConnectionTimeoutError" THEN <<"send", "expect_exact">>
         ELSE <<"send">>
    ELSE IF exc = None THEN <<"spawn">> ELSE << >>

\* Chain.connect: Controller.spawn_session fails for a device that is not
\* marked connected
ChainSpawnFails ==
    /\ pc = "connect"
    /\ cur_dev \in Devs
    /\ LET c == Head(chain_indices)
           d == cur_dev
       IN /\ ~devices[c][d].connected
          /\ \E cls \in {"ConnectionError", "ConnectionTimeoutError"} :
                /\ ctrl_session' = [ctrl_session EXCEPT ![c] = @ /\ cls # "ConnectionError"]
                /\ ChainRaises(Raise(cls, IF cls = "ConnectionError"
                                          THEN "Connection error" ELSE "Timeout"),
                               [NoEv EXCEPT !.act = "spawn_session", !.chain = c, !.dev = d,
                                            !.alive = ctrl_session[c],
                                            !.spawn = spawn_session(ctrl_session[c], cls)])
    /\ UNCHANGED <<devices, last_chain_index, attempts, start_index, calls>>
    /\ UNCHANGED <<fsm_vars, ext_vars>>

\* Chain.disconnect on the devices of one chain
ChainDisconnect(chain) == tail_disconnect(chain, -1)

\* Chain.connect: the session is spawned and Device.connect runs for a
\* device that is not marked connected
ChainConnectDevice ==
    /\ pc = "connect"
    /\ cur_dev \in Devs
    /\ LET c == Head(chain_indices)
           d == cur_dev
       IN /\ ~devices[c][d].connected
          /\ \E far \in FarEnds(IsTarget(d)) :
                /\ FarPossible(devices[c][d], IsTarget(d), far)
                /\ LET out == DeviceConnect(devices[c][d], IsTarget(d), far)
                       chain == [devices[c] EXCEPT ![d] = out.device]
                       devs == [devices EXCEPT
                                   ![c] = IF out.chain_disconnect
                                          THEN ChainDisconnect(chain) ELSE chain]
                       message == IF out.last_error_msg # None
                                  THEN out.last_error_msg ELSE "Connection error"
                       step == [NoEv EXCEPT !.act = "device_connect", !.chain = c, !.dev = d,
                                            !.ret = out.ret, !.checked = out.checked,
                                            !.alive = ctrl_session[c],
                                            !.spawn = spawn_session(ctrl_session[c], None),
                                            !.discovery = /\ out.ret = "True"
                                                          /\ far.post = "send"
                                                          /\ Discovers(devices[c][d])]
                   IN
                   /\ devices' = devs
                   /\ ctrl_session' = [ctrl_session EXCEPT ![c] = ~out.session_ends]
                   /\ IF out.ret = "True"
                      THEN ChainContinues(c, d, devs, step)
                      ELSE IF out.ret = "raise"
                      THEN ChainRaises(out.exc, step)
                      ELSE ChainRaises(Raise("ConnectionError", message), step)
    /\ UNCHANGED <<last_chain_index, attempts, start_index, calls>>
    /\ UNCHANGED <<fsm_vars, ext_vars>>

\* the chain loop ran out of indices: `else: raise excpt`
ConnectExhausted ==
    /\ pc = "connect"
    /\ cur_dev = 0
    /\ chain_indices = << >>
    /\ pc' = "idle"
    /\ ev' = [NoEv EXCEPT !.act = "exhausted", !.exc = excpt, !.result = "raised"]
    /\ excpt' = NoExc
    /\ UNCHANGED <<devices, ctrl_session, last_chain_index, cache, chain_indices, cur_dev,
                   attempts, start_index, calls>>
    /\ UNCHANGED <<fsm_vars, ext_vars>>

\* Chain.disconnect with the controller closed before the target's dialog
ChainDisconnectStepsCloseFirst(connected, alive, write) ==
    (IF alive THEN <<"close">> ELSE << >>)
    \o (IF connected THEN <<"dialog">> ELSE << >>)
    \o (IF write = "ok" THEN <<"mark">> ELSE << >>)

\* Chain.disconnect: what it does, in order: the protocol's disconnect dialog
\* of a target that is marked connected, Controller.disconnect closing a
\* live child, tail_disconnect(-1); a failed write of the dialog ends it
ChainDisconnectSteps(connected, alive, write) ==
    IF write = "ok"
    THEN (IF connected THEN <<"dialog">> ELSE << >>)
         \o (IF alive THEN <<"close">> ELSE << >>)
         \o <<"mark">>
    ELSE <<"dialog">>

\* Connection.disconnect: Chain.disconnect of the chain at _last_chain_index.
\* Device.disconnect of a target that is marked connected writes the
\* protocol's end-of-session character to the controller's session; on a
\* session without a live child the write can fail, and the exception
\* leaves disconnect before Controller.disconnect and tail_disconnect
Disconnect ==
    /\ pc = "idle"
    /\ calls < MaxCalls
    /\ \E write \in {"ok", "OSError"} :
          LET c == last_chain_index
              writes == devices[c][ChainLen].connected
          IN
          /\ write = "OSError" => writes /\ ~ctrl_session[c]
          /\ IF write = "ok"
             THEN /\ devices' = [devices EXCEPT ![c] = ChainDisconnect(@)]
                  /\ ctrl_session' = [ctrl_session EXCEPT ![c] = FALSE]
                  /\ ev' = [NoEv EXCEPT !.act = "disconnect", !.chain = c,
                                        !.was_connected = writes,
                                        !.steps = ChainDisconnectSteps(writes, ctrl_session[c],
                                                                       write)]
             ELSE /\ ev' = [NoEv EXCEPT !.act = "disconnect", !.chain = c,
                                        !.exc = Raise("OSError", "Bad file descriptor"),
                                        !.result = "raised",
                                        !.was_connected = writes,
                                        !.steps = ChainDisconnectSteps(writes, ctrl_session[c],
                                                                       write)]
                  /\ UNCHANGED <<devices, ctrl_session>>
    /\ calls' = calls + 1
    /\ UNCHANGED <<last_chain_index, cache, pc, chain_indices, cur_dev, excpt, attempts,
                   start_index>>
    /\ UNCHANGED <<fsm_vars, ext_vars>>

\* the cache file outlives the program: a Connection can start with the
\* record of an earlier run
ConnInit ==
    /\ FsmIdle
    /\ devices = [c \in Chains |-> [d \in Devs |-> NewDevice]]
    /\ ctrl_session = [c \in Chains |-> FALSE]
    /\ last_chain_index = 0
    /\ cache \in CacheAtStart
    /\ pc = "idle"
    /\ chain_indices = << >>
    /\ cur_dev = 0
    /\ excpt = NoExc
    /\ attempts = << >>
    /\ start_index = 0
    /\ calls = 0
    /\ ev = NoEv
    /\ ExtIdle

ConnNext ==
    \/ ConnectBegin
    \/ ConnectNextChain
    \/ ChainSkipDevice
    \/ ChainSpawnFails
    \/ ChainConnectDevice
    \/ ConnectExhausted
    \/ Disconnect

SpecConn == ConnInit /\ [][ConnNext]_vars

-----------------------------------------------------------------------------
(* Connection.reconnect                                                    *)

MaxReconnects == 1

\* seconds
MaxTimeouts == {-1, 0, 45, 70}
AttemptDurations == {5, 40}
MaxSleep == 30

\* what Controller.detect_prompt can return when the dialog of a hop failed
DetectedPrompts == {None, "jh$", "ios#", "Username:"}

\* the finally clause with a fixed pause
SleepTimeFixed(max_timeout, elapsed) == MaxSleep

\* the finally clause: sleep_time = min(30, max_timeout - elapsed)
SleepTime(max_timeout, elapsed) ==
    IF max_timeout - elapsed < MaxSleep THEN max_timeout - elapsed ELSE MaxSleep

\* Chain.connect from device d on, as one call: every way it can end, as
\* the devices and the session it leaves and the exception it raises
\* (NoExc when it returns True)
RECURSIVE chain_connect(_, _, _)
chain_connect(chain, session, d) ==
    IF d > ChainLen
    THEN {[devices |-> chain, session |-> session, exc |-> NoExc]}
    ELSE IF chain[d].connected
    THEN chain_connect(chain, session, d + 1)
    ELSE {[devices |-> chain, session |-> session /\ cls # "ConnectionError",
           exc |-> Raise(cls, IF cls = "ConnectionError" THEN "Connection error" ELSE "Timeout")] :
             cls \in {"ConnectionError", "ConnectionTimeoutError"}}
         \cup UNION {
             LET out == DeviceConnect(chain[d], IsTarget(d), far)
                 after == [chain EXCEPT ![d] = out.device]
                 devs == IF out.chain_disconnect THEN ChainDisconnect(after) ELSE after
                 message == IF out.last_error_msg # None
                            THEN out.last_error_msg ELSE "Connection error"
             IN IF out.ret = "True"
                THEN chain_connect(devs, ~out.session_ends, d + 1)
                ELSE {[devices |-> devs, session |-> ~out.session_ends,
                       exc |-> IF out.ret = "raise" THEN out.exc
                               ELSE Raise("ConnectionError", message)]} :
             far \in {f \in FarEnds(IsTarget(d)) : FarPossible(chain[d], IsTarget(d), f)}}

\* Chain.get_device_index_based_on_prompt: the index of the first device
\* that holds the prompt, -2 standing for the None it returns otherwise
get_device_index_based_on_prompt(chain, prompt) ==
    IF \E d \in Devs : chain[d].prompt = prompt
    THEN (CHOOSE d \in Devs : /\ chain[d].prompt = prompt
                              /\ \A e \in Devs : chain[e].prompt = prompt => d <= e) - 1
    ELSE -2

\* Connection.reconnect up to the while loop
ReconnectBegin ==
    /\ pc = "idle"
    /\ calls < MaxReconnects
    /\ \E force_discovery \in BOOLEAN, max_timeout \in MaxTimeouts :
          LET read == ReadCacheDevices(devices, cache)
              index == ReadCacheIndex(last_chain_index, cache)
          IN
          /\ devices' = IF force_discovery THEN ClearInfo(read) ELSE read
          /\ last_chain_index' = index
          /\ cache' = IF force_discovery
                      THEN description_record(ClearInfo(read), index)
                      ELSE cache
          /\ chain_indices' = _chain_indices(index)
          /\ start_index' = index
          /\ rc' = [NoRc EXCEPT !.phase = "while", !.max_timeout = max_timeout]
          /\ ev' = [NoEv EXCEPT !.act = "reconnect", !.force = force_discovery]
    /\ excpt' = Raise("ConnectionError", "Could not (re)connect to the device")
    /\ attempts' = << >>
    /\ pc' = "reconnect"
    /\ calls' = calls + 1
    /\ UNCHANGED <<ctrl_session, cur_dev>>
    /\ UNCHANGED <<fsm_vars, ext_not_rc>>

\* the while condition holds: the pause before the attempt, and the elapsed
\* time taken again after it
ReconnectWhile ==
    /\ pc = "reconnect"
    /\ rc.phase = "while"
    /\ rc.max_timeout - rc.elapsed > 0
    /\ LET slept == IF rc.sleep_time > 0 THEN rc.sleep_time ELSE 0
       IN rc' = [rc EXCEPT !.phase = "try", !.slept = slept, !.elapsed = @ + slept]
    /\ UNCHANGED conn_vars
    /\ UNCHANGED <<fsm_vars, ext_not_rc>>

\* the try statement of the loop body: Chain.connect of the chain at the
\* head of chain_indices, the except clause and the finally clause
ReconnectTry ==
    /\ pc = "reconnect"
    /\ rc.phase = "try"
    /\ \E res \in chain_connect(devices[Head(chain_indices)], ctrl_session[Head(chain_indices)], 1),
          duration \in AttemptDurations, detected \in DetectedPrompts :
          LET c == Head(chain_indices)
              caught == res.exc # NoExc /\ Caught(res.exc.cls)
              detects == caught /\ res.session
              index == get_device_index_based_on_prompt(res.devices, detected)
              elapsed == rc.elapsed + duration
              finally == [rc EXCEPT !.elapsed = elapsed,
                                    !.sleep_time = SleepTime(rc.max_timeout, elapsed),
                                    !.last_exc = res.exc,
                                    !.prompt = IF detects THEN detected ELSE None,
                                    !.index = IF detects THEN index ELSE -2]
              leaves(exc) == /\ rc' = [finally EXCEPT !.phase = "idle", !.result = "raised",
                                                      !.exc = exc]
                             /\ pc' = "idle"
                             /\ excpt' = NoExc
                             /\ chain_indices' = << >>
                             /\ UNCHANGED cache
          IN
          /\ detects \/ detected = None
          /\ last_chain_index' = c
          /\ attempts' = Append(attempts, c)
          /\ ctrl_session' = [ctrl_session EXCEPT ![c] = res.session]
          /\ IF res.exc = NoExc
             THEN \* `if chain.connect(): break`, then _write_cache()
                  /\ devices' = [devices EXCEPT ![c] = res.devices]
                  /\ cache' = description_record(devices', c)
                  /\ rc' = [finally EXCEPT !.phase = "idle", !.result = "ok"]
                  /\ pc' = "idle"
                  /\ excpt' = NoExc
                  /\ chain_indices' = << >>
             ELSE IF ~caught
             THEN /\ devices' = [devices EXCEPT ![c] = res.devices]
                  /\ leaves(res.exc)
             ELSE IF detects /\ index = -2
             THEN \* tail_disconnect(None): None + 1
                  /\ devices' = [devices EXCEPT ![c] = res.devices]
                  /\ leaves(Raise("TypeError", "NoneType"))
             ELSE /\ devices' = [devices EXCEPT ![c] =
                                    IF detects THEN tail_disconnect(res.devices, index)
                                    ELSE res.devices]
                  /\ chain_indices' = Rotate(chain_indices, -1)
                  /\ excpt' = res.exc
                  /\ rc' = [finally EXCEPT !.phase = "while"]
                  /\ UNCHANGED <<cache, pc>>
    /\ UNCHANGED <<cur_dev, start_index, calls, ev>>
    /\ UNCHANGED <<fsm_vars, ext_not_rc>>

\* the while condition fails: `else: raise excpt`
ReconnectGivesUp ==
    /\ pc = "reconnect"
    /\ rc.phase = "while"
    /\ ~(rc.max_timeout - rc.elapsed > 0)
    /\ rc' = [rc EXCEPT !.phase = "idle", !.result = "raised", !.exc = excpt]
    /\ pc' = "idle"
    /\ excpt' = NoExc
    /\ chain_indices' = << >>
    /\ UNCHANGED <<devices, ctrl_session, last_chain_index, cache, cur_dev, attempts,
                   start_index, calls, ev>>
    /\ UNCHANGED <<fsm_vars, ext_not_rc>>

ReconnNext == ReconnectBegin \/ ReconnectWhile \/ ReconnectTry \/ ReconnectGivesUp

SpecReconn == ConnInit /\ [][ReconnNext]_vars

-----------------------------------------------------------------------------
(* The cache key: Connection._get_key, Chain.__repr__, HopInfo.__repr__    *)

\* the parts of the URL of a hop; port 0 stands for a URL without a port
Urls == [protocol : {"telnet", "ssh"}, username : {None, "admin"},
         password : {"secret1", "secret2"}, hostname : {"host"}, port : {0, 23}]

\* a representation that prints the password too
HopInfo_repr_with_password(url) ==
    <<url.protocol, "://", url.username, ":", url.password, "@", url.hostname, ":", url.port>>

\* HopInfo.__init__ and HopInfo.__repr__: a missing port is taken from the
\* protocol; the text holds protocol, username (when given), hostname, port
HopInfo_repr(url) ==
    LET port == IF url.port # 0 THEN url.port
                ELSE IF url.protocol = "telnet" THEN 23 ELSE 22
    IN IF url.username = None
       THEN <<url.protocol, "://", url.hostname, ":", port>>
       ELSE <<url.protocol, "://", url.username, "@", url.hostname, ":", port>>

\* Connection._get_key: the md5 digest of str(connection_chains), here of a
\* Connection with one chain of one hop; the digest is taken as free of
\* collisions
_get_key(url) == <<"md5", <<"[", HopInfo_repr(url), "]">> >>

\* two Connection objects, 1 and 2, are built from their URLs; the cache
\* file is empty
KeyInit ==
    /\ FsmIdle
    /\ ConnStart
    /\ rc = NoRc
    /\ snd = NoSnd
    /\ en = NoEn
    /\ hp = NoHp
    /\ pd = NoPd
    /\ \E u1 \in Urls, u2 \in Urls :
          kc = [urls |-> <<u1, u2>>, file |-> << >>, read |-> <<0, 0>>]

\* Connection._write_cache of Connection n: its record is stored under its key
KeyWriteCache ==
    /\ \E n \in 1..2 :
          LET key == _get_key(kc.urls[n])
              others == SelectSeq(kc.file, LAMBDA e : e.key # key)
          IN kc' = [kc EXCEPT !.file = Append(others, [key |-> key, writer |-> n])]
    /\ UNCHANGED <<fsm_vars, conn_vars, ext_not_kc>>

\* Connection._read_cache of Connection n: it takes the record stored under
\* its key, if there is one; read[n] is the Connection that wrote it
KeyReadCache ==
    /\ kc.file # << >>
    /\ \E n \in 1..2 :
          LET key == _get_key(kc.urls[n])
              found == SelectSeq(kc.file, LAMBDA e : e.key = key)
          IN kc' = [kc EXCEPT !.read[n] = IF found # << >> THEN found[1].writer ELSE 0]
    /\ UNCHANGED <<fsm_vars, conn_vars, ext_not_kc>>

KeyNext == KeyWriteCache \/ KeyReadCache

SpecKey == KeyInit /\ [][KeyNext]_vars

-----------------------------------------------------------------------------
(* Device.send, Device.execute_command, Driver.wait_for_string             *)

MaxSends == 2

Cmds == {"show version", "show bogus"}

Sent(result, exc, command) == [result |-> result, exc |-> exc, command |-> command]

\* a_unexpected_prompt: ctx.msg is formatted with the matched prompt, the
\* exception is built from a fixed text and the hostname of the controller
a_unexpected_prompt_messages(after) ==
    [ctx_msg |-> Msg("Received the jump host prompt: '{}'", after),
     raised |-> Msg("Unable to connect to the device.", None)]

\* the text of the session as a sequence of pieces: the echo of the command
\* ends a line, a page of output is one line
Echo(cmd) == <<cmd, "\r", "\n">>
PageBody == <<"line", "\r", "\n">>

\* Controller.before: the text between the previous match and this one; up
\* to the first match it starts with the echo of the command
BeforeOf(cmd, first) == (IF first THEN Echo(cmd) ELSE << >>) \o PageBody

\* Python `text.find('\n')`, counted from 0, -1 when there is none
FindNewline(text) ==
    IF \E i \in DOMAIN text : text[i] = "\n"
    THEN (CHOOSE i \in DOMAIN text : /\ text[i] = "\n"
                                      /\ \A j \in DOMAIN text : text[j] = "\n" => i <= j) - 1
    ELSE -1

\* execute_command: `output = self.ctrl.before.replace('\r', '')`, then
\* `output[output.find('\n') + 1:]`
execute_command_output(before) ==
    LET output == SelectSeq(before, LAMBDA piece : piece # "\r")
        second_line_index == FindNewline(output) + 1
    IN SubSeq(output, second_line_index + 1, Len(output))

\* the message of the exception that leaves execute_command: an exception
\* that is re-raised keeps its message, a new one has a fixed text
execute_command_message(outcome, raised) ==
    CASE outcome = "True" -> NoMsg
      [] outcome = "False" -> Msg("Unexpected session disconnect", None)
      [] outcome = "CommandSyntaxError" -> raised
      [] outcome \in {"CommandTimeoutError", TIMEOUT} -> Msg("Command timeout", None)
      [] Caught(outcome) -> raised
      [] outcome = EOF -> Msg("Unexpected session disconnect", None)
      [] OTHER -> Msg("Unexpected error", None)

\* execute_command without its last clause, `except Exception`
execute_command_without_catch_all(outcome, cmd) ==
    CASE outcome = "True" -> Sent("output", None, None)
      [] outcome = "False" -> Sent("raised", "ConnectionError", None)
      [] outcome = "CommandSyntaxError" -> Sent("raised", "CommandSyntaxError", cmd)
      [] outcome \in {"CommandTimeoutError", TIMEOUT} -> Sent("raised", "CommandTimeoutError", cmd)
      [] Caught(outcome) -> Sent("raised", outcome, None)
      [] outcome = EOF -> Sent("raised", "ConnectionError", None)
      [] OTHER -> Sent("raised", outcome, None)

\* Device.execute_command: what leaves it for the outcome of send_command
\* and wait_for_string ("True", "False" or the class of an exception)
execute_command(outcome, cmd) ==
    CASE outcome = "True" -> Sent("output", None, None)
      [] outcome = "False" -> Sent("raised", "ConnectionError", None)
      [] outcome = "CommandSyntaxError" -> Sent("raised", "CommandSyntaxError", cmd)
      [] outcome \in {"CommandTimeoutError", TIMEOUT} -> Sent("raised", "CommandTimeoutError", cmd)
      [] Caught(outcome) -> Sent("raised", outcome, None)
      [] outcome = EOF -> Sent("raised", "ConnectionError", None)
      [] OTHER -> Sent("raised", "ConnectionError", None)

\* a target after a connect: marked connected or not, its session alive or
\* not, the prompt and the mode it holds
SendInit ==
    /\ fsm = [name |-> WaitForString.name,
              events |-> WaitForString.events,
              transition_table |-> _compile(WaitForString.transitions, WaitForString.events),
              max_transitions |-> WaitForString.max_transitions,
              username |-> FALSE,
              password |-> FALSE]
    /\ timeout = WaitForString.timeout
    /\ init_pattern = None
    /\ init_given = FALSE
    /\ transition_counter = 0
    /\ ctx = [event |-> NoEvent, state |-> 0, finished |-> FALSE, sent |-> << >>, hits |-> << >>]
    /\ run_result = "idle"
    /\ run_exc = None
    /\ dev_connected \in BOOLEAN
    /\ ctrl_alive \in BOOLEAN
    /\ last = NoLast
    /\ n_expect = 0
    /\ n_action = 0
    /\ ConnStart
    /\ rc = NoRc
    /\ kc = NoKc
    /\ snd = [NoSnd EXCEPT !.prompt = "ios#", !.mode = "global"]
    /\ en = NoEn
    /\ hp = NoHp
    /\ pd = NoPd

\* Device.send up to wait_for_string: the connected test, and in
\* execute_command the write of the command with Controller.send_command,
\* which fails on a session that is not alive
SendBegin ==
    /\ snd.phase = "idle"
    /\ snd.n < MaxSends
    /\ \E cmd \in Cmds, failure \in {EOF, "OSError"} :
          LET begun == [snd EXCEPT !.n = @ + 1, !.cmd = cmd, !.wrote = FALSE, !.result = None,
                                   !.exc = None, !.command = None, !.prev = snd.exc,
                                   !.after = None, !.ctx_msg = NoMsg, !.msg = NoMsg,
                                   !.more = 0, !.spaces = 0, !.before = << >>,
                                   !.output = << >>,
                                   !.pre = [connected |-> dev_connected, alive |-> ctrl_alive,
                                            prompt |-> snd.prompt, mode |-> snd.mode]]
              out == execute_command(failure, cmd)
          IN IF ~dev_connected
             THEN /\ snd' = [begun EXCEPT !.result = "raised", !.exc = "ConnectionError",
                                          !.msg = Msg("Device not connected", None)]
                  /\ UNCHANGED fsm_vars
             ELSE IF ~ctrl_alive
             THEN /\ snd' = [begun EXCEPT !.result = out.result, !.exc = out.exc,
                                          !.command = out.command,
                                          !.msg = execute_command_message(failure, NoMsg)]
                  /\ UNCHANGED fsm_vars
             ELSE \* wait_for_string builds the FSM and runs it
                  /\ snd' = [begun EXCEPT !.phase = "wait", !.wrote = TRUE]
                  /\ timeout' = WaitForString.timeout
                  /\ init_pattern' = None
                  /\ init_given' = FALSE
                  /\ transition_counter' = 0
                  /\ ctx' = [event |-> NoEvent, state |-> 0, finished |-> FALSE, sent |-> << >>, hits |-> << >>]
                  /\ run_result' = "running"
                  /\ run_exc' = None
                  /\ last' = NoLast
                  /\ n_expect' = 0
                  /\ n_action' = 0
                  /\ UNCHANGED <<fsm, dev_connected, ctrl_alive>>
    /\ UNCHANGED <<conn_vars, ext_not_snd>>

\* one iteration of the FSM of wait_for_string; a_expected_prompt takes the
\* prompt from the matched text and the mode from the prompt,
\* a_unexpected_prompt builds its messages from the matched text, the
\* a_send of the pager row writes one space
SendExpect ==
    /\ snd.phase = "wait"
    /\ Expect
    /\ \E live \in TargetPrompts, hop \in JumphostPrompts :
          LET seen == [snd EXCEPT !.more = IF fsm.events[ctx'.event + 1] = "more_re"
                                          THEN @ + 1 ELSE @,
                                  !.before = BeforeOf(snd.cmd, n_expect = 0),
                                  !.spaces = IF /\ last'.kind = "hit"
                                                /\ last'.entry.act.name = "a_send"
                                             THEN @ + 1 ELSE @]
          IN
          snd' = IF last'.kind = "hit" /\ last'.entry.act.name = "a_expected_prompt"
                 THEN [seen EXCEPT !.prompt = live, !.mode = update_config_mode(live),
                                   !.after = live]
                 ELSE IF last'.kind = "hit" /\ last'.entry.act.name = "a_unexpected_prompt"
                 THEN [seen EXCEPT !.after = hop,
                                   !.ctx_msg = a_unexpected_prompt_messages(hop).ctx_msg,
                                   !.msg = a_unexpected_prompt_messages(hop).raised]
                 ELSE seen
    /\ UNCHANGED <<conn_vars, ext_not_snd>>

\* wait_for_string has returned or raised: execute_command and send end
SendEnd ==
    /\ snd.phase = "wait"
    /\ run_result \in {"True", "False", "raised"}
    /\ LET out == execute_command(IF run_result = "raised" THEN run_exc ELSE run_result, snd.cmd)
           outcome == IF run_result = "raised" THEN run_exc ELSE run_result
       IN snd' = [snd EXCEPT !.phase = "idle", !.result = out.result, !.exc = out.exc,
                             !.command = out.command,
                             !.msg = execute_command_message(outcome, snd.msg),
                             !.output = IF out.result = "output"
                                        THEN execute_command_output(snd.before)
                                        ELSE << >>]
    /\ run_result' = "idle"
    /\ UNCHANGED <<fsm, init_pattern, init_given, timeout, transition_counter, ctx, run_exc,
                   dev_connected, ctrl_alive, last, n_expect, n_action>>
    /\ UNCHANGED <<conn_vars, ext_not_snd>>

SendNext == SendBegin \/ SendExpect \/ RunLooped \/ SendEnd

SpecSend == SendInit /\ [][SendNext]_vars

-----------------------------------------------------------------------------
(* IOS Driver.enable                                                       *)

MaxEnables == 3

\* the prompt of an IOS target in user mode
UserPrompt == "ios>"

\* the prompts device.prompt_re matches after the enable command
EnablePrompts == {UserPrompt, "ios#"}

\* Python `prompt[-1] == '#'` on the prompts above
EndsWithHash(prompt) == prompt \in TargetPrompts

\* enable(): `if self.device.prompt[-1] != '#': raise ConnectionAuthenticationError`
PrivilegedModeNotSet(prompt) == ~EndsWithHash(prompt)

\* an IOS target after its connect and authenticate dialogs: in user or in
\* privileged mode, its session alive or not, an enable password at hand or not
EnableInit ==
    /\ \E password \in BOOLEAN :
          fsm = [name |-> IosEnable.name,
                 events |-> IosEnable.events,
                 transition_table |-> _compile(IosEnable.transitions, IosEnable.events),
                 max_transitions |-> IosEnable.max_transitions,
                 username |-> FALSE,
                 password |-> password]
    /\ timeout = IosEnable.timeout
    /\ init_pattern = None
    /\ init_given = FALSE
    /\ transition_counter = 0
    /\ ctx = [event |-> NoEvent, state |-> 0, finished |-> FALSE, sent |-> << >>, hits |-> << >>]
    /\ run_result = "idle"
    /\ run_exc = None
    /\ dev_connected = TRUE
    /\ ctrl_alive \in BOOLEAN
    /\ last = NoLast
    /\ n_expect = 0
    /\ n_action = 0
    /\ ConnStart
    /\ rc = NoRc
    /\ kc = NoKc
    /\ snd = NoSnd
    /\ hp = NoHp
    /\ pd = NoPd
    /\ \E prompt \in EnablePrompts \cup TargetPrompts :
          en = [NoEn EXCEPT !.prompt = prompt]

\* enable() up to fsm.run(): the test of the prompt, the write of the enable
\* command with Controller.send_command, which fails on a session that is
\* not alive, and the construction of the FSM
EnableBegin ==
    /\ en.phase = "idle"
    /\ en.n < MaxEnables
    /\ \E failure \in {EOF, "OSError"} :
          LET begun == [en EXCEPT !.n = @ + 1, !.wrote = FALSE, !.result = None, !.exc = None,
                                  !.pre_prompt = en.prompt]
          IN IF EndsWithHash(en.prompt)
             THEN /\ en' = [begun EXCEPT !.result = "returned"]
                  /\ UNCHANGED fsm_vars
             ELSE IF ~ctrl_alive
             THEN /\ en' = [begun EXCEPT !.result = "raised", !.exc = failure]
                  /\ UNCHANGED fsm_vars
             ELSE /\ en' = [begun EXCEPT !.phase = "run", !.wrote = TRUE]
                  /\ timeout' = IosEnable.timeout
                  /\ init_pattern' = None
                  /\ init_given' = FALSE
                  /\ transition_counter' = 0
                  /\ ctx' = [event |-> NoEvent, state |-> 0, finished |-> FALSE, sent |-> << >>, hits |-> << >>]
                  /\ run_result' = "running"
                  /\ run_exc' = None
                  /\ last' = NoLast
                  /\ n_expect' = 0
                  /\ n_action' = 0
                  /\ UNCHANGED <<fsm, dev_connected, ctrl_alive>>
    /\ UNCHANGED <<conn_vars, ext_not_en>>

\* one iteration of the FSM of enable; a_expected_prompt takes the prompt
\* from the matched text
EnableExpect ==
    /\ en.phase = "run"
    /\ Expect
    /\ \E live \in EnablePrompts :
          en' = IF last'.kind = "hit" /\ last'.entry.act.name = "a_expected_prompt"
                THEN [en EXCEPT !.prompt = live]
                ELSE en
    /\ UNCHANGED <<conn_vars, ext_not_en>>

\* fsm.run() has returned or raised: the last test of the prompt
EnableEnd ==
    /\ en.phase = "run"
    /\ run_result \in {"True", "False", "raised"}
    /\ en' = IF run_result = "raised"
             THEN [en EXCEPT !.phase = "idle", !.result = "raised", !.exc = run_exc]
             ELSE IF PrivilegedModeNotSet(en.prompt)
             THEN [en EXCEPT !.phase = "idle", !.result = "raised",
                             !.exc = "ConnectionAuthenticationError"]
             ELSE [en EXCEPT !.phase = "idle", !.result = "returned"]
    /\ run_result' = "idle"
    /\ UNCHANGED <<fsm, init_pattern, init_given, timeout, transition_counter, ctx, run_exc,
                   dev_connected, ctrl_alive, last, n_expect, n_action>>
    /\ UNCHANGED <<conn_vars, ext_not_en>>

EnableNext == EnableBegin \/ EnableExpect \/ EnableEnd

SpecEnable == EnableInit /\ [][EnableNext]_vars

-----------------------------------------------------------------------------
(* make_hop_info_from_url, HopInfo, device_gen, Chain.__init__             *)

MaxUrls == 2

\* what urlparse gives for the URL of a hop: scheme, hostname (None when
\* the URL has none), credentials, port (0 when the URL has none) and the
\* enable_password of the query (None when the query has none)
ParsedUrls == [scheme : {"telnet", "ssh", "http"}, hostname : {None, "host"},
               username : {None, "admin"}, port : {0, 2022},
               enable_password : {None, "", "en"}]

\* HopInfo.is_valid
is_valid(hop) == hop.protocol \in {"telnet", "ssh"}

\* HopInfo.__init__
HopInfo(protocol, hostname, username, port, enable_password) ==
    [protocol |-> protocol,
     hostname |-> hostname,
     username |-> username,
     enable_password |-> IF enable_password # "" THEN enable_password ELSE None,
     port |-> IF port # 0 THEN port
              ELSE IF protocol = "telnet" THEN 23
              ELSE IF protocol = "ssh" THEN 22
              ELSE 0]

\* make_hop_info_from_url: the HopInfo, or InvalidHopInfoError
make_hop_info_from_url(parsed) ==
    LET hop_info == HopInfo(parsed.scheme, parsed.hostname, parsed.username, parsed.port,
                            parsed.enable_password)
    IN IF is_valid(hop_info)
       THEN [exc |-> None, hop_info |-> hop_info]
       ELSE [exc |-> "InvalidHopInfoError", hop_info |-> None]

\* the URL list of one chain
HopInit ==
    /\ FsmIdle
    /\ ConnStart
    /\ rc = NoRc
    /\ kc = NoKc
    /\ snd = NoSnd
    /\ en = NoEn
    /\ pd = NoPd
    /\ \E n \in 1..MaxUrls : \E urls \in [1..n -> ParsedUrls] :
          hp = [NoHp EXCEPT !.urls = urls]

\* Chain.__init__ consuming device_gen: the next URL becomes a Device, the
\* last one the target; an exception of make_hop_info_from_url ends it
\* before the Device of that URL and before the Chain exist
DeviceGen ==
    /\ hp.result = None
    /\ LET i == Len(hp.devices) + 1
           made == make_hop_info_from_url(hp.urls[i])
       IN IF made.exc # None
          THEN hp' = [hp EXCEPT !.result = "raised", !.exc = made.exc]
          ELSE hp' = [hp EXCEPT !.devices = Append(@, [node_info |-> made.hop_info,
                                                      url |-> i,
                                                      is_target |-> i = Len(hp.urls)]),
                                !.result = IF i = Len(hp.urls) THEN "chain" ELSE None]
    /\ UNCHANGED <<fsm_vars, conn_vars, ext_not_hp>>

HopNext == DeviceGen

SpecHop == HopInit /\ [][HopNext]_vars

-----------------------------------------------------------------------------
(* Device.disconnect of a connected target: the disconnect of its protocol *)
(* adapter                                                                 *)

\* the `exit` commands one disconnect sends before the model stops following
\* a device that never leaves its mode
MaxExits == 3

\* Device.get_protocol_name: the scheme of the URL, with _console appended
\* for a console-attached hop
ProtocolNames == {"telnet", "ssh", "telnet_console", "ssh_console"}

\* protocols/__init__.py: the class make_protocol instantiates
protocol2object(protocol_name) ==
    CASE protocol_name = "ssh" -> "SSH"
      [] protocol_name = "telnet" -> "Telnet"
      [] protocol_name = "telnet_console" -> "TelnetConsole"
      [] protocol_name = "ssh_console" -> "SSH"
      [] OTHER -> "Protocol"

\* one write to the session, with the mode the device is in when it is made
Wrote(text, mode) == [text |-> text, mode |-> mode]

\* a connected target with its adapter, in any mode
PdInit ==
    /\ FsmIdle
    /\ ConnStart
    /\ rc = NoRc
    /\ kc = NoKc
    /\ snd = NoSnd
    /\ en = NoEn
    /\ hp = NoHp
    /\ \E protocol_name \in ProtocolNames, prompt \in TargetPrompts :
          pd = [NoPd EXCEPT !.protocol_name = protocol_name,
                            !.mode = update_config_mode(prompt)]

\* Telnet.disconnect: chr(4) is written to the session
TelnetDisconnect ==
    /\ pd.phase = "idle"
    /\ protocol2object(pd.protocol_name) = "Telnet"
    /\ pd' = [pd EXCEPT !.phase = "done", !.written = <<Wrote("EOT", pd.mode)>>]
    /\ UNCHANGED <<fsm_vars, conn_vars, ext_not_pd>>

\* SSH.disconnect: the lines 0x03 and 0x04 are written to the session
SSHDisconnect ==
    /\ pd.phase = "idle"
    /\ protocol2object(pd.protocol_name) = "SSH"
    /\ pd' = [pd EXCEPT !.phase = "done",
                        !.written = <<Wrote("ETX", pd.mode), Wrote("EOT", pd.mode)>>]
    /\ UNCHANGED <<fsm_vars, conn_vars, ext_not_pd>>

\* TelnetConsole.disconnect, one round of `while self.device.mode !=
\* 'global'`: Device.send('exit') returns at the prompt the device answers
\* with, and a_expected_prompt updates the mode from it, or it raises
ConsoleExit ==
    /\ pd.phase \in {"idle", "loop"}
    /\ protocol2object(pd.protocol_name) = "TelnetConsole"
    /\ pd.mode # "global"
    /\ pd.exits < MaxExits
    /\ \E outcome \in TargetPrompts \cup {"ConnectionError", "CommandTimeoutError"} :
          IF outcome \in TargetPrompts
          THEN pd' = [pd EXCEPT !.phase = "loop",
                                !.written = Append(@, Wrote("exit", pd.mode)),
                                !.exits = @ + 1,
                                !.mode = update_config_mode(outcome)]
          ELSE pd' = [pd EXCEPT !.phase = "raised",
                                !.written = Append(@, Wrote("exit", pd.mode)),
                                !.exits = @ + 1,
                                !.exc = outcome]
    /\ UNCHANGED <<fsm_vars, conn_vars, ext_not_pd>>

\* TelnetConsole.disconnect after the loop: `exit` is sent waiting for the
\* press-RETURN banner, then chr(4) is written to the session
ConsoleLeave ==
    /\ pd.phase \in {"idle", "loop"}
    /\ protocol2object(pd.protocol_name) = "TelnetConsole"
    /\ pd.mode = "global"
    /\ \E outcome \in {"press_return_re", "ConnectionError", "CommandTimeoutError"} :
          IF outcome = "press_return_re"
          THEN pd' = [pd EXCEPT !.phase = "done",
                                !.written = @ \o <<Wrote("exit", pd.mode),
                                                   Wrote("EOT", "global")>>]
          ELSE pd' = [pd EXCEPT !.phase = "raised",
                                !.written = Append(@, Wrote("exit", pd.mode)),
                                !.exc = outcome]
    /\ UNCHANGED <<fsm_vars, conn_vars, ext_not_pd>>

PdNext == TelnetDisconnect \/ SSHDisconnect \/ ConsoleExit \/ ConsoleLeave

SpecPd == PdInit /\ [][PdNext]_vars

-----------------------------------------------------------------------------
(* Properties of FSM.run                                                   *)

\* the key of the last iteration is in the compiled table
LastKeyInTable == <<ctx.event, last.pre_state>> \in DOMAIN fsm.transition_table

\* C1: run starts in state 0 and returns True exactly when a matched
\* transition was taken (its action did not fail or raise) and either the
\* row's next_state is -1 or the action of that transition set ctx.finished.
C1_TrueExactlyAfterFinalTransition ==
    /\ transition_counter = 0 => (ctx.state = 0 /\ run_result = "running")
    /\ run_result = "True" <=>
          /\ last.kind = "hit"
          /\ LastKeyInTable
          /\ last.act_ret = "true"
          /\ ctx.state = last.entry.next_state
          /\ \/ last.entry.next_state = -1
             \/ ctx.finished /\ ~last.pre_finished

C1_Witness ==
    /\ run_result = "True"
    /\ ctx.finished
    /\ last.entry.next_state = -1
    /\ transition_counter >= 2

\* C2: a callable action returning a false value makes run return False at
\* once, also when the row's next_state is -1; the row's next_state and
\* timeout are not applied and no further event is awaited.
C2_FalseActionReturnsFalse ==
    /\ [](last.kind = "hit" /\ last.entry.act.kind = "call" /\ last.act_ret = "false"
            => /\ run_result = "False"
               /\ run_exc = None
               /\ ctx.state = last.pre_state
               /\ timeout = last.pre_timeout)
    /\ [][run_result = "False" => n_expect' = n_expect]_vars

C2_Witness ==
    /\ last.kind = "hit"
    /\ last.act_ret = "false"
    /\ last.entry.next_state = -1
    /\ last.entry.timeout # last.pre_timeout
    /\ run_result = "False"

C4_EndsWithinMaxTransitions ==
    /\ [](transition_counter <= fsm.max_transitions)
    /\ [](transition_counter = n_expect + (IF init_given /\ init_pattern = None THEN 1 ELSE 0))
    /\ [](last.kind \in {"miss", "init_unknown"} /\ transition_counter >= fsm.max_transitions
            => run_result = "running" /\ ~Looping)
    /\ [](last.kind = "looped"
            => /\ run_result = "False"
               /\ run_exc = None
               /\ transition_counter = fsm.max_transitions)
    /\ <>(run_result # "running")

C4_Witness ==
    /\ last.kind = "looped"
    /\ run_result = "False"
    /\ init_given
    /\ n_action = 0

\* C5: an event without a table entry for the current state invokes no
\* action and leaves the state, the running timeout and the finished flag as
\* they were; run goes on to the next iteration, which calls expect.
C5_MissChangesNothing ==
    (last.kind \in {"hit", "miss"} /\ ~LastKeyInTable)
        => /\ ctx.state = last.pre_state
           /\ timeout = last.pre_timeout
           /\ ctx.finished = last.pre_finished
           /\ n_action = last.pre_n_action
           /\ run_result = "running"
           /\ init_pattern = None

C5_Witness ==
    /\ last.kind = "miss"
    /\ last.expected
    /\ last.pre_state = 1
    /\ last.pre_timeout = 10
    /\ transition_counter < fsm.max_transitions

\* C6 as claimed: whenever the controller reaches end-of-file while run
\* waits, run raises ConnectionError, for every event list, table and state.
C6_EofAlwaysRaisesConnectionError ==
    last.eof => (run_result = "raised" /\ run_exc = "ConnectionError")

\* C6 amended: an end-of-file that expect raises (EOF is not in the event
\* list) leaves run as ConnectionError in every state, with the context
\* unchanged; an EOF listed as an event is dispatched through the table.
C6_EofRaisedByExpectIsConnectionError ==
    /\ (last.kind = "expect_raised" /\ last.eof)
          => /\ run_result = "raised"
             /\ run_exc = "ConnectionError"
             /\ ctx.state = last.pre_state
             /\ ~SeqContains(fsm.events, EOF)
    /\ (last.kind \in {"hit", "miss"} /\ last.eof)
          => /\ SeqContains(fsm.events, EOF)
             /\ ctx.event = IndexOf(fsm.events, EOF)
             /\ LastKeyInTable <=> last.kind = "hit"

C6_Witness ==
    /\ last.kind = "expect_raised"
    /\ last.eof
    /\ last.pre_state # 0
    /\ run_exc = "ConnectionError"

-----------------------------------------------------------------------------
(* Properties of Connection.connect, Chain.connect and Device.connect       *)

Target(c) == devices[c][ChainLen]

\* C7 as claimed: whenever Connection.connect returns normally the mode of
\* the target device is 'global', also when its prompt came from the cache.
C7_ConnectReturnsInGlobalMode ==
    ev.result = "ok" => Target(last_chain_index).mode = "global"

\* the prompt checked right after authentication shows config or admin mode
ChecksNonGlobalPrompt ==
    /\ ev.act = "device_connect"
    /\ IsTarget(ev.dev)
    /\ ev.checked # None
    /\ PromptContains(ev.checked, "config") \/ PromptContains(ev.checked, "admin")

\* C8: when the prompt the target device holds after authentication (the
\* prompt its mode is computed from) indicates config or admin mode,
\* Device.connect returns False without marking the device connected, the
\* controller's child session is closed, every device of the chain is marked
\* disconnected and Chain.connect raises ConnectionError with the recorded
\* message.
C8_NonGlobalTargetTearsChainDown ==
    ChecksNonGlobalPrompt
        => /\ ev.ret = "False"
           /\ ~Target(ev.chain).connected
           /\ ~ctrl_session[ev.chain]
           /\ \A d \in Devs : ~devices[ev.chain][d].connected
           /\ ev.exc = Raise("ConnectionError", NotGlobalMsg)

C8_Witness ==
    /\ ChecksNonGlobalPrompt
    /\ ev.checked = "sysadmin-vm:0_RP0#"
    /\ Target(ev.chain).mode = "admin"
    /\ excpt = Raise("ConnectionError", NotGlobalMsg)
    /\ Len(attempts) >= 2

\* C9 as claimed: in every reachable state a device is marked connected only
\* if the connect and authenticate FSMs of its most recent Device.connect
\* succeeded and its prompt is set.
C9_ConnectedOnlyWithFsmsAndPrompt ==
    \A c \in Chains, d \in Devs :
        devices[c][d].connected => (devices[c][d].fsms_ok /\ devices[c][d].prompt # None)

\* C9 amended: a device becomes marked connected only in a Device.connect
\* whose connect and authenticate FSMs both succeeded and that holds a
\* non-null prompt at that point; clear_info may later null the prompt of a
\* device that stays marked connected.
C9_MarkedConnectedOnlyWithFsmsAndPrompt ==
    [][\A c \in Chains, d \in Devs :
          (~devices[c][d].connected /\ devices'[c][d].connected)
              => /\ ev'.act = "device_connect" /\ ev'.chain = c /\ ev'.dev = d
                 /\ devices'[c][d].fsms_ok
                 /\ devices'[c][d].prompt # None]_vars

C9_Witness ==
    /\ ev.act = "device_connect"
    /\ ev.ret = "True"
    /\ \A d \in Devs : devices[ev.chain][d].connected /\ devices[ev.chain][d].fsms_ok
    /\ calls = 2

\* C10 as claimed: connect attempts the chains in cyclic order beginning
\* with the chain at last_chain_index, tries each chain at most once and
\* stops at the first chain whose connect succeeds.
C10_ChainsTriedInCyclicOrderFromLastIndex ==
    /\ \A i \in 1..Len(attempts) : attempts[i] = (start_index + i - 1) % NChains
    /\ \A i, j \in 1..Len(attempts) : attempts[i] = attempts[j] => i = j
    /\ ev.result = "ok" => (pc = "idle" /\ attempts[Len(attempts)] = last_chain_index)

-----------------------------------------------------------------------------
(* Properties of the failure of Connection.connect                         *)

\* C11: when no chain connects, connect raises the exception it caught from
\* the last chain it attempted, unchanged: same class (ConnectionError,
\* ConnectionTimeoutError or ConnectionAuthenticationError) and same message
\* as the exception that left that chain's Chain.connect.
C11_ExhaustedRaisesLastChainsException ==
    [][ev'.act = "exhausted"
          => /\ ev.act \in {"device_connect", "spawn_session"}
             /\ ev.chain = last_chain_index
             /\ Caught(ev.exc.cls)
             /\ ev'.exc = ev.exc
             /\ ev'.result = "raised"
             /\ Len(attempts) = NChains]_vars

C11_Witness ==
    /\ ev.act = "exhausted"
    /\ ev.exc.cls = "ConnectionAuthenticationError"
    /\ Len(attempts) = NChains

-----------------------------------------------------------------------------
(* Properties of Connection.reconnect                                      *)

\* C12: reconnect ends in one of three ways: it returns after the first
\* chain whose connect succeeds; when every attempt failed it raises the
\* exception of the last attempt, and only once elapsed has reached
\* max_timeout; with max_timeout <= 0 it makes no attempt and raises the
\* default ConnectionError.
C12_ReconnectEndsAsStated ==
    /\ rc.result = "ok" => rc.last_exc = NoExc
    /\ rc.result = "raised" =>
          IF attempts = << >>
          THEN /\ rc.max_timeout <= 0
               /\ rc.exc = Raise("ConnectionError", "Could not (re)connect to the device")
          ELSE /\ rc.exc = rc.last_exc
               /\ rc.elapsed >= rc.max_timeout
    /\ rc.max_timeout <= 0 => attempts = << >>

\* C13: the pause before an attempt is at most 30 s and at most the budget
\* (max_timeout - elapsed) left at the end of the previous attempt; there
\* is no pause before the first attempt; an attempt that follows a failed
\* attempt on chain i is on chain (i + 1) mod n.
C13_SleepBoundedAndNextChainFollows ==
    /\ [][rc'.phase = "try"
            => /\ rc'.slept <= MaxSleep
               /\ rc'.slept <= rc.max_timeout - rc.elapsed
               /\ rc'.slept >= 0
               /\ rc'.elapsed = rc.elapsed + rc'.slept
               /\ attempts = << >> => rc'.slept = 0]_vars
    /\ [](pc = "reconnect" \/ rc.result # None
            => \A i \in 1..(Len(attempts) - 1) :
                  attempts[i + 1] = (attempts[i] + 1) % NChains)

C13_Witness ==
    /\ rc.phase = "try"
    /\ rc.slept > 0
    /\ rc.slept < MaxSleep
    /\ Len(attempts) >= 2

-----------------------------------------------------------------------------
(* Properties of the cache                                                 *)

\* C14: connect with force_discovery=True discards everything that was read
\* from the cached record before it connects: on a Connection that has made
\* no call before, every device holds no prompt, no mode and no os version,
\* and the chain index is the constructor's 0, whatever the cache held.
C14_ForcedDiscoveryDiscardsCachedRecord ==
    (ev.act = "connect" /\ ev.force /\ calls = 1)
        => /\ \A c \in Chains, d \in Devs :
                 device_info(devices[c][d], IsTarget(d)) = device_info(NewDevice, IsTarget(d))
           /\ last_chain_index = 0

\* a connect without force_discovery, with a record in the cache, has just
\* connected the target
ConnectsTargetWithCachedRecord ==
    /\ ev'.act = "device_connect"
    /\ ev'.ret = "True"
    /\ IsTarget(ev'.dev)
    /\ ~ev'.force
    /\ cache.present

DifferOnlyInPassword ==
    /\ kc.urls # << >>
    /\ kc.urls[1].password # kc.urls[2].password
    /\ [kc.urls[1] EXCEPT !.password = kc.urls[2].password] = kc.urls[2]

\* C16 as stated: two Connections whose chains differ only in a hop
\* password compute different cache keys and never read each other's record.
C16_PasswordSeparatesCacheKeys ==
    DifferOnlyInPassword
        => /\ _get_key(kc.urls[1]) # _get_key(kc.urls[2])
           /\ kc.read[1] # 2
           /\ kc.read[2] # 1

\* C16 amended: the key is the digest of the chain text, which holds each
\* hop's protocol, username, hostname and port (the standard port when the
\* URL has none) and not its password: Connections that differ only in a
\* password have the same key and share a record; Connections whose texts
\* differ have different keys and never read each other's record.
C16_KeyIgnoresPassword ==
    /\ kc.urls # << >> =>
          /\ DifferOnlyInPassword => _get_key(kc.urls[1]) = _get_key(kc.urls[2])
          /\ _get_key(kc.urls[1]) = _get_key(kc.urls[2])
                <=> HopInfo_repr(kc.urls[1]) = HopInfo_repr(kc.urls[2])
          /\ HopInfo_repr(kc.urls[1]) # HopInfo_repr(kc.urls[2])
                => kc.read[1] # 2 /\ kc.read[2] # 1
          /\ \A n \in 1..2 : \A f \in {"protocol", "username", "hostname"} :
                kc.urls[1][f] # kc.urls[2][f] => kc.read[n] \in {0, n}

C16_Witness ==
    /\ DifferOnlyInPassword
    /\ kc.read[1] = 2

-----------------------------------------------------------------------------
(* Properties of Device.send                                               *)

\* C17: an exception that leaves Device.send is a ConnectionError (or one of
\* its subclasses), a CommandSyntaxError or a CommandTimeoutError; a command
\* error carries the text of the command; a send on a device that is not
\* marked connected raises ConnectionError and writes nothing to the session.
C17_SendRaisesOnlyDocumentedClasses ==
    /\ snd.result = "raised"
          => /\ Caught(snd.exc) \/ snd.exc \in {"CommandSyntaxError", "CommandTimeoutError"}
             /\ snd.exc \in {"CommandSyntaxError", "CommandTimeoutError"}
                   => snd.command = snd.cmd
    /\ (snd.n > 0 /\ ~snd.pre.connected)
          => /\ snd.result = "raised"
             /\ snd.exc = "ConnectionError"
             /\ ~snd.wrote
             /\ snd.phase = "idle"

C17_Witness ==
    /\ snd.result = "raised"
    /\ snd.exc = "ConnectionError"
    /\ snd.pre.connected
    /\ ~snd.pre.alive
    /\ snd.n = MaxSends

\* C18: after Device.send raised CommandSyntaxError the session is still
\* open and the device's connected flag, prompt and mode are what they were
\* before the send; the following send writes its command and runs its dialog.
C18_SyntaxErrorLeavesDeviceUsable ==
    /\ (snd.phase = "idle" /\ snd.exc = "CommandSyntaxError")
          => /\ ctrl_alive
             /\ dev_connected
             /\ snd.pre.connected
             /\ snd.prompt = snd.pre.prompt
             /\ snd.mode = snd.pre.mode
    /\ snd.prev = "CommandSyntaxError"
          => /\ snd.wrote
             /\ snd.pre.connected
             /\ snd.pre.alive

C18_Witness ==
    /\ snd.prev = "CommandSyntaxError"
    /\ snd.result = "output"
    /\ n_action >= 2

-----------------------------------------------------------------------------
(* Properties of Connection.disconnect                                     *)

\* C19: Connection.disconnect does not raise, whatever happened before
\* (nothing, a connect that raised, an earlier disconnect); after it the
\* controller of the current chain has no live child and every device of
\* that chain, the target included, is marked disconnected.
C19_DisconnectNeverRaisesAndDisconnectsAll ==
    ev.act = "disconnect"
        => /\ ev.result # "raised"
           /\ ~ctrl_session[ev.chain]
           /\ \A d \in Devs : ~devices[ev.chain][d].connected

-----------------------------------------------------------------------------
(* Properties of IOS Driver.enable                                         *)

\* C20: on an IOS target whose prompt does not end in '#', enable either
\* returns with a prompt ending in '#' or raises
\* ConnectionAuthenticationError, or ConnectionError when the session
\* reached end-of-file; when the prompt already ends in '#', enable sends
\* nothing.
C20_EnableEndsPrivilegedOrRaisesAsStated ==
    en.phase = "idle" /\ en.n > 0
        => IF EndsWithHash(en.pre_prompt)
           THEN ~en.wrote /\ en.result = "returned"
           ELSE \/ en.result = "returned" /\ EndsWithHash(en.prompt)
                \/ /\ en.result = "raised"
                   /\ en.exc \in {"ConnectionAuthenticationError", "ConnectionError"}

-----------------------------------------------------------------------------
(* Properties of Driver.wait_for_string                                    *)

\* the last iteration of the wait_for_string of this send matched the
\* prompt of a previous hop
PreviousHopPromptSeen ==
    /\ snd.after \in JumphostPrompts
    /\ last.kind = "hit"
    /\ fsm.events[ctx.event + 1] = "jumphost_prompt_re"
    /\ last.pre_state \in {0, 1}

\* C21: when the prompt of a previous hop is matched in state 0 or 1 of
\* wait_for_string the command does not succeed: ConnectionError is raised,
\* and its message names the prompt that was matched.
C21_PreviousHopPromptIsFatalAndNamed ==
    PreviousHopPromptSeen
        => /\ run_exc = "ConnectionError"
           /\ snd.msg.arg = snd.after
           /\ IF snd.phase = "wait"
              THEN run_result = "raised"
              ELSE snd.result = "raised" /\ snd.exc = "ConnectionError"

-----------------------------------------------------------------------------
(* Properties of Chain.disconnect                                          *)

\* the positions of a step in the steps of the last disconnect
StepAt(step) == {i \in DOMAIN ev.steps : ev.steps[i] = step}

\* C22: Chain.disconnect runs the disconnect dialog of the target's protocol
\* first, and only when the target is marked connected, then closes the
\* child of the controller, then marks the devices disconnected; nothing
\* is written to the session after the child was closed.
C22_DisconnectStepsInOrder ==
    ev.act = "disconnect"
        => /\ \A i \in StepAt("dialog"), j \in StepAt("close") : i < j
           /\ \A i \in StepAt("close"), j \in StepAt("mark") : i < j
           /\ \A i \in StepAt("dialog"), j \in StepAt("mark") : i < j
           /\ StepAt("dialog") # {} <=> ev.was_connected
           /\ ev.result # "raised" => StepAt("mark") # {}

C22_Witness ==
    /\ ev.act = "disconnect"
    /\ ev.steps = <<"dialog", "close", "mark">>

-----------------------------------------------------------------------------
(* Properties of the alternative chains                                    *)

\* C23: at most one chain of a Connection has a live child at any time;
\* when connect or reconnect goes on from a failed chain to the next, the
\* child of the failed chain has been closed before the next chain spawns.
C23_AtMostOneLiveChain ==
    \A c1 \in Chains, c2 \in Chains :
        ctrl_session[c1] /\ ctrl_session[c2] => c1 = c2

-----------------------------------------------------------------------------
(* Properties of SSH.connect                                               *)

\* the last iteration called fallback_to_sshv1 and the action got past its
\* spawn of the ssh command with protocol version 1
FallbackSpawned ==
    /\ last.kind = "hit"
    /\ last.entry.act.name = "fallback_to_sshv1"
    /\ last.act_ret = "true"

\* C24: in the SSH connect dialog the reply 'modulus too small' makes
\* fallback_to_sshv1 spawn the ssh command with protocol version 1 and the
\* dialog goes on; with the first spawn that is at most 2 spawns for the hop.
C24_ModulusTooSmallSpawnsFallback ==
    (/\ fsm.name = "SSH-CONNECT"
     /\ last.kind = "hit"
     /\ fsm.events[ctx.event + 1] = "MODULUS_TOO_SMALL")
        => /\ FallbackSpawned
           /\ run_result # "raised"

-----------------------------------------------------------------------------
(* Properties of the except clause of Connection.reconnect                 *)

\* C25: after a failed attempt of reconnect that leaves the session alive
\* at the prompt of hop i, the hops 0..i of that chain are marked connected
\* and every hop after i is marked disconnected, so that the next attempt
\* on the chain connects the hops after i only.
C25_FailedAttemptKeepsHopsUpToPrompt ==
    (rc.phase = "while" /\ rc.prompt # None /\ rc.index # -2)
        => \A d \in Devs :
              devices[last_chain_index][d].connected <=> d - 1 <= rc.index

-----------------------------------------------------------------------------
(* Properties of make_hop_info_from_url                                    *)

\* the URL names no telnet or ssh scheme, or names no host
SchemeOrHostMissing(parsed) ==
    parsed.scheme \notin {"telnet", "ssh"} \/ parsed.hostname = None

\* C26: a URL whose scheme is not telnet or ssh, or whose host is missing,
\* raises InvalidHopInfoError when its hop descriptor is built; no Device
\* and no Chain is made from it.
C26_BadUrlRaisesInvalidHopInfoError ==
    \A i \in DOMAIN hp.urls :
        (SchemeOrHostMissing(hp.urls[i]) /\ (hp.result # None \/ Len(hp.devices) >= i))
            => /\ hp.result = "raised"
               /\ hp.exc = "InvalidHopInfoError"
               /\ \A d \in DOMAIN hp.devices : hp.devices[d].url # i

-----------------------------------------------------------------------------
(* Properties of the pager row of wait_for_string                          *)

\* every event of the running wait_for_string so far was a pager marker
OnlyPagerMarkersSoFar ==
    /\ snd.phase = "wait"
    /\ snd.more = transition_counter

\* C27: for every number k of pager markers that arrive before the expected
\* prompt, wait_for_string writes one space per marker and nothing else,
\* stays in state 0 and goes on waiting, and ends with True when the
\* prompt arrives.
C27_PagerConsumedForEveryCount ==
    /\ OnlyPagerMarkersSoFar
          => /\ run_result = "running"
             /\ ctx.state = 0
             /\ snd.spaces = snd.more
    /\ (/\ snd.phase = "wait"
        /\ snd.more = transition_counter - 1
        /\ last.kind = "hit"
        /\ last.entry.act.name = "a_expected_prompt")
          => /\ run_result = "True"
             /\ snd.spaces = snd.more

-----------------------------------------------------------------------------
(* Properties of the output of Device.send                                 *)

\* the bodies of n pages without carriage returns, one after the other
RECURSIVE PagesJoined(_)
PagesJoined(n) == IF n = 0 THEN << >> ELSE PagesJoined(n - 1) \o <<"line", "\n">>

\* the last send returned after pager markers followed by the prompt
ReturnedPagedOutput ==
    /\ snd.phase = "idle"
    /\ snd.result = "output"
    /\ snd.more = transition_counter - 1
    /\ last.kind = "hit"
    /\ last.entry.act.name = "a_expected_prompt"

\* C28: when the output of a command is paged, Device.send returns the
\* bodies of all pages one after the other (what follows the line of the
\* command echo, up to the final prompt), without pager markers and
\* without carriage returns.
C28_PagedOutputIsConcatenated ==
    ReturnedPagedOutput => snd.output = PagesJoined(snd.more + 1)

-----------------------------------------------------------------------------
(* Properties of the connection-closed row of wait_for_string              *)

\* the step is an iteration of wait_for_string that matched the
\* connection-closed message in state 0
ConnectionClosedSeen ==
    /\ snd.phase = "wait"
    /\ transition_counter' = transition_counter + 1
    /\ ctx.state = 0
    /\ fsm.events[ctx'.event + 1] = "connection_closed_re"

\* C29: the connection-closed message in state 0 of wait_for_string moves
\* the FSM to state 1 and marks the device disconnected; the mark stays,
\* whatever event ends the FSM, and the next send raises ConnectionError
\* without writing its command to the session.
C29_ConnectionClosedMarksDisconnectedForGood ==
    /\ [][ConnectionClosedSeen => (ctx'.state = 1 /\ ~dev_connected'
                                   /\ run_result' = "running")]_vars
    /\ [][~dev_connected => ~dev_connected']_vars
    /\ [][(~dev_connected /\ snd'.n = snd.n + 1)
             => /\ snd'.result = "raised"
                /\ snd'.exc = "ConnectionError"
                /\ ~snd'.wrote
                /\ snd'.phase = "idle"]_vars

C29_Witness ==
    /\ snd.n = 2
    /\ snd.prev = None
    /\ snd.result = "raised"
    /\ snd.exc = "ConnectionError"
    /\ ~snd.wrote
    /\ snd.pre.alive
    /\ last.kind = "hit"
    /\ last.entry.act.name = "a_expected_prompt"
    /\ last.pre_state = 1

-----------------------------------------------------------------------------
(* Properties of the running timeout of FSM.run                            *)

\* the timeouts the FSM of this name is built with
InitialTimeouts == {cfg.timeout : cfg \in {c \in FsmConfigs : c.name = fsm.name}}

\* C30: the timeout of each wait of run() is the timeout of the transition
\* taken last among those whose row has a timeout other than 0, and the
\* initial timeout of the FSM when there is none: a row with timeout 0 and
\* an event without a transition leave the running timeout as it is.
C30_RunningTimeoutFollowsLastNonZeroRow ==
    /\ [](transition_counter = 0 => timeout \in InitialTimeouts)
    /\ [][(transition_counter' = transition_counter + 1 /\ run_result' = "running")
             => timeout' = IF last'.kind = "hit" /\ last'.entry.timeout # 0
                           THEN last'.entry.timeout
                           ELSE timeout]_vars

C30_Witness ==
    /\ run_result = "running"
    /\ fsm.name = "SSH-CONNECT"
    /\ last.kind = "hit"
    /\ last.entry.timeout = 0
    /\ last.pre_timeout = 10
    /\ timeout = 10
    /\ timeout \notin InitialTimeouts

-----------------------------------------------------------------------------
(* Properties of init_pattern                                              *)

\* the step is one iteration of the loop of run()
Iteration == transition_counter' = transition_counter + 1

\* C31: when run() is given an init_pattern, its first iteration does not
\* wait on the controller and takes the index of init_pattern in the event
\* list as its event; that iteration consumes init_pattern, and every
\* later iteration takes its event from the controller's expect.
C31_InitPatternOnlyInFirstIteration ==
    /\ [](transition_counter > 0 => init_pattern = None)
    /\ [][(Iteration /\ init_pattern # None)
             => /\ transition_counter = 0
                /\ n_expect' = n_expect
                /\ init_pattern' = None
                /\ SeqContains(fsm.events, init_pattern)
                      => /\ last'.kind \in {"hit", "miss"}
                         /\ ~last'.expected
                         /\ fsm.events[ctx'.event + 1] = init_pattern]_vars
    /\ [][(Iteration /\ init_pattern = None)
             => /\ n_expect' = n_expect + 1
                /\ last'.expected]_vars

C31_Witness ==
    /\ init_given
    /\ transition_counter = 2
    /\ n_expect = 1
    /\ last.kind = "hit"
    /\ last.expected
    /\ ctx.event > 0

\* the step is a call of Controller.spawn_session by Chain.connect
SpawnSessionCalled == ev.act \in {"spawn_session", "device_connect"}

\* the child processes started by the call
ChildrenStarted == Cardinality({i \in DOMAIN ev.spawn : ev.spawn[i] = "spawn"})

\* C32: Controller.spawn_session starts a new child process only when the
\* controller has no live session; with a live session it writes the next
\* hop's command into it, waits for the echo and sends a newline, so the
\* controller never owns more than one live child process.
C32_SpawnOnlyWithoutLiveSession ==
    SpawnSessionCalled
        => /\ ChildrenStarted > 0 => ~ev.alive
           /\ (IF ev.alive THEN 1 ELSE 0) + ChildrenStarted <= 1
           /\ (ev.alive /\ ev.act = "device_connect")
                 => ev.spawn = <<"send", "expect_exact", "sendline">>
           /\ (~ev.alive /\ ev.act = "device_connect") => ev.spawn = <<"spawn">>

C32_Witness ==
    /\ ev.act = "device_connect" /\ ev.dev > 1
    /\ ev.alive /\ ev.spawn = <<"send", "expect_exact", "sendline">>

\* how many times item was written to the controller in this run
TimesSent(item) == Cardinality({i \in DOMAIN ctx.sent : ctx.sent[i] = item})

\* C33: in one run of the telnet authentication FSM the username is sent at
\* most once and the password at most once, the username before the
\* password, and at most one newline is sent on TIMEOUT; a username or
\* password prompt matched after the password was sent ends the run with
\* ConnectionAuthenticationError.
C33_TelnetAuthSendsCredentialsOnce ==
    /\ [](fsm.name = "TELNET-AUTH"
            => /\ TimesSent("username") <= 1
               /\ TimesSent("password") <= 1
               /\ TimesSent("text_on_timeout") <= 1
               /\ \A i, j \in DOMAIN ctx.sent :
                     (ctx.sent[i] = "username" /\ ctx.sent[j] = "password") => i < j)
    /\ [][(/\ fsm.name = "TELNET-AUTH"
           /\ Iteration
           /\ TimesSent("password") > 0
           /\ last'.kind = "hit"
           /\ fsm.events[ctx'.event + 1] \in {"username_re", "password_re"})
              => /\ run_result' = "raised"
                 /\ run_exc' = "ConnectionAuthenticationError"]_vars

C33_Witness ==
    /\ fsm.name = "TELNET-AUTH"
    /\ ctx.sent = <<"username", "password">>
    /\ fsm.events[ctx.event + 1] = "password_re"
    /\ run_result = "raised" /\ run_exc = "ConnectionAuthenticationError"

\* the run is the authenticate dialog of a protocol adapter and has ended
\* with ConnectionAuthenticationError
AuthenticationFailed ==
    /\ fsm.name \in {"TELNET-AUTH", "SSH-AUTH"}
    /\ run_result = "raised"
    /\ run_exc = "ConnectionAuthenticationError"

\* C34: whenever the authenticate FSM of the telnet or of the ssh adapter
\* ends with ConnectionAuthenticationError, for rejected credentials or for a
\* username or password missing from the hop, the controller's child session
\* has been closed by the time the exception leaves run().
C34_AuthenticationErrorClosesSession ==
    AuthenticationFailed => ~ctrl_alive

C34_Witness ==
    /\ AuthenticationFailed /\ fsm.name = "SSH-AUTH"
    /\ TimesSent("password") = 1
    /\ ~ctrl_alive

\* the hop is console-attached
ConsoleAttached == pd.protocol_name \in {"telnet_console", "ssh_console"}

\* C35: for a console-attached hop, with the telnet-console and with the
\* ssh-console adapter alike, disconnect walks back to global mode by sending
\* `exit` while the device mode is not global, and writes EOT (0x04) only once
\* the mode is global.
C35_ConsoleDisconnectLeavesModesFirst ==
    ConsoleAttached
        => \A i \in DOMAIN pd.written :
              /\ pd.written[i].text = "EOT" => pd.written[i].mode = "global"
              /\ pd.written[i].mode # "global" => pd.written[i].text = "exit"

\* the same, for the telnet-console adapter alone
TelnetConsoleDisconnectLeavesModesFirst ==
    pd.protocol_name = "telnet_console"
        => \A i \in DOMAIN pd.written :
              /\ pd.written[i].text = "EOT" => pd.written[i].mode = "global"
              /\ pd.written[i].mode # "global" => pd.written[i].text = "exit"

\* the place of event among the events matched by the reload dialog
FirstHit(event) ==
    IF SeqContains(ctx.hits, event)
    THEN CHOOSE i \in DOMAIN ctx.hits : ctx.hits[i] = event
    ELSE 0

ConnectReturned ==
    /\ pc = "idle"
    /\ ev.act \in {"device_connect", "skip_device"}
    /\ ev.result = "ok"

\* C37: whenever Connection.connect or Connection.reconnect returns normally,
\* the controller of the selected chain has a live child session and every
\* device of that chain is marked connected, also when the session was closed
\* by end-of-file or by an authentication failure since the previous
\* successful connect.
C37_ReturnMeansLiveSessionAndAllConnected ==
    (ConnectReturned \/ rc.result = "ok")
        => /\ ctrl_session[last_chain_index]
           /\ \A d \in Devs : devices[last_chain_index][d].connected

\* C38: Chain.connect starts a new local child process only for the first
\* hop of the chain; the command of every later hop is written into the live
\* session established through the earlier hops, so a later hop is never
\* reached by bypassing its jumphosts, whatever connects, failures and
\* disconnects came before.
C38_LaterHopsGoThroughTheLiveSession ==
    (SpawnSessionCalled /\ ev.dev > 1)
        => /\ ChildrenStarted = 0
           /\ ev.act = "device_connect" => ev.alive

\* Chain.connect has raised while connecting the device ev.dev of ev.chain
ChainConnectRaisedAtDevice ==
    /\ ev.act = "device_connect"
    /\ ev.exc # NoExc

\* C39: if Chain.connect raises while connecting a device (a failure of the
\* protocol's connect or authenticate dialog, of discovery or of enable), that
\* device is left marked disconnected, so that a following connect or
\* reconnect connects it again instead of skipping it.
C39_FailedDeviceIsLeftDisconnected ==
    ChainConnectRaisedAtDevice => ~devices[ev.chain][ev.dev].connected

\* the devices of chain c that are marked connected are its first hops
ConnectedIsPrefix(c) ==
    \A d \in Devs : \A e \in Devs :
        (d < e /\ devices[c][e].connected) => devices[c][d].connected

====
